---- MODULE Spec2Model ----
(***************************************************************************)
(* Model of the move-to-yul backend: the compilation context              *)
(* (language/evm/move-to-yul/src/context.rs) and the Yul runtime library  *)
(* (language/evm/move-to-yul/src/yul_functions.rs).                       *)
(*                                                                         *)
(* Move types are tuples whose first component is the variant tag:        *)
(*   <<"Primitive", p>>, <<"Vector", et>>, <<"Struct", mid, sid, inst>>,  *)
(*   <<"Tuple", tys>>, <<"TypeParameter", i>>, <<"Reference", mut, ty>>.  *)
(* Strings produced by the name mangler are sequences of one-character    *)
(* strings.  EVM words are 256-bit vectors, bit 0 the least significant.  *)
(***************************************************************************)
EXTENDS Integers, Sequences, FiniteSets, TLC

VARIABLES
    env,            \* GlobalEnv: the field declarations of the struct under test
    struct_layout,  \* Context::struct_layout, the layout cache
    st_arg,         \* the argument of the last get_struct_layout call
    st_ret,         \* the value returned by the last get_struct_layout call
    first_ret,      \* history: the value returned by the first call for each struct
    mg_in,          \* the type list handed to the name mangler
    mg_out,         \* the mangled strings: [types |-> .., type |-> ..]
    abi_in,         \* the type handed to the ABI helpers
    abi_out,        \* [static, unpadded, padded, sum_unpadded, sum_padded]
    ptr_op,         \* the last pointer helper that ran
    ptr_in,         \* its arguments
    ptr_out,        \* its results
    memory,         \* EVM memory of the emitted program, one byte per address
    key_in,         \* the (group, word) arguments of the last two StorageKey calls
    key_out,        \* the keccak pre-images of the last two StorageKey calls
    storage,        \* EVM storage of the contract: storage key -> word
    yul_op,         \* the last function of the Yul runtime library that ran
    yul_in,         \* its arguments
    yul_out,        \* its results
    hist,           \* history: the results of the earlier calls, oldest first,
                    \* or the storage or memory before a store
    sp_in,          \* the text handed to substitute_placeholders
    sp_out,         \* [done, first, second]: its result and that of a second pass
    used,           \* the Yul functions the generated code calls
    needed,         \* the Yul functions still to be emitted
    emitted,        \* the Yul functions emitted, in the order of emission
    targets,        \* FunctionTargetsHolder: the functions that have a target
    add_stack,      \* the add_fun calls in progress, the innermost last
    cb_pos,         \* create_bytecode: the functions of env visited so far
    for_test,       \* the for_test argument of create_bytecode
    sel_in,         \* the type handed to the load/store selectors
    sel_out         \* what each selector and max_value returned

vars == <<env, struct_layout, st_arg, st_ret, first_ret, mg_in, mg_out,
          abi_in, abi_out, ptr_op, ptr_in, ptr_out, memory, key_in, key_out,
          storage, yul_op, yul_in, yul_out, hist, sp_in, sp_out,
          used, needed, emitted, targets, add_stack, cb_pos, for_test, sel_in, sel_out>>

layout_vars == <<env, struct_layout, st_arg, st_ret, first_ret>>
mangle_vars == <<mg_in, mg_out>>
abi_vars == <<abi_in, abi_out>>
ptr_vars == <<ptr_op, ptr_in, ptr_out>>
key_vars == <<memory, key_in, key_out>>
yul_vars == <<storage, yul_op, yul_in, yul_out, hist>>
subst_vars == <<sp_in, sp_out>>
emit_vars == <<used, needed, emitted>>
target_vars == <<targets, add_stack, cb_pos, for_test>>
sel_vars == <<sel_in, sel_out>>
gen_vars == <<emit_vars, target_vars, sel_vars>>

\* ---------------------------------------------------------------- bounds

\* The largest number of fields of the struct under test.
MaxFields == 3
\* The longest type list handed to mangle_types.
MaxTypes == 2
\* The deepest nesting of Vector in a mangled type.
MaxVecDepth == 2
\* The longest type list handed to the ABI helpers.
MaxAbiTypes == 3
\* Probe words set any of the LowBits lowest and HighBits highest bits.
LowBits == 2
HighBits == 2
\* Storage groups 0..MaxGroup are used, and the largest 4-byte group.
MaxGroup == 2
MaxWordOffs == 2
MaxAllocs == 3
MaxCalls == 3
MaxPieces == 3
MaxSmall == 3

\* ----------------------------------------------------------------- types

Primitive(p) == <<"Primitive", p>>
Vector(et) == <<"Vector", et>>
Struct(mid, sid, inst) == <<"Struct", mid, sid, inst>>
Tuple(tys) == <<"Tuple", tys>>
TypeParameter(i) == <<"TypeParameter", i>>
Reference(is_mut, ty) == <<"Reference", is_mut, ty>>

Bool == Primitive("Bool")
U8 == Primitive("U8")
U64 == Primitive("U64")
U128 == Primitive("U128")
Address == Primitive("Address")
Signer == Primitive("Signer")
Num == Primitive("Num")
Range == Primitive("Range")
EventStore == Primitive("EventStore")

is_vector(ty) == ty[1] = "Vector"
is_struct(ty) == ty[1] = "Struct"

\* The value of a helper that panicked ("unexpected field type").
Panic == -1

\* ------------------------------------------------------------ the model
\* Modules of the GlobalEnv: the module M at address 0xa1 holds the structs the
\* checks use, module 1 is the EVM arithmetic module with the native U256;
\* the modules a_B and a at 0xa1, and a at 0xa2, hold one struct each.
Modules ==
    (0 :> [addr |-> 161, name |-> <<"M">>, is_evm_arith |-> FALSE]) @@
    (1 :> [addr |-> 2, name |-> <<"U", "2", "5", "6">>, is_evm_arith |-> TRUE]) @@
    (2 :> [addr |-> 161, name |-> <<"a", "_", "B">>, is_evm_arith |-> FALSE]) @@
    (3 :> [addr |-> 161, name |-> <<"a">>, is_evm_arith |-> FALSE]) @@
    (4 :> [addr |-> 162, name |-> <<"a">>, is_evm_arith |-> FALSE])

U256 == Struct(1, "U256", <<>>)
\* struct P { a: u8, b: u64 }
StructP == Struct(0, "P", <<>>)
\* struct E { f0: bool, f1: vector<u8>, f2: u128, f3: address }
StructE == Struct(0, "E", <<>>)
\* struct V { a: u64, b: vector<u8> }
StructV == Struct(0, "V", <<>>)
\* struct W { a: P, b: U256, c: bool }
StructW == Struct(0, "W", <<>>)
\* struct G<X> { f0: X, f1: u64 }, instantiated
StructG(x) == Struct(0, "G", <<x>>)
\* a_B::C, a::B_C (at 0xa1) and a::B_C (at 0xa2), each struct { f0: u8 }
StructAbC == Struct(2, "C", <<>>)
StructABc == Struct(3, "B_C", <<>>)
StructA2Bc == Struct(4, "B_C", <<>>)

\* The declarations that do not vary; T<X> is the struct under test, whose
\* fields `env` holds.
FixedStructs ==
    (<<0, "P">> :> [name |-> <<"P">>, is_native |-> FALSE, fields |-> <<U8, U64>>]) @@
    (<<0, "E">> :> [name |-> <<"E">>, is_native |-> FALSE,
                    fields |-> <<Bool, Vector(U8), U128, Address>>]) @@
    (<<0, "V">> :> [name |-> <<"V">>, is_native |-> FALSE,
                    fields |-> <<U64, Vector(U8)>>]) @@
    (<<0, "W">> :> [name |-> <<"W">>, is_native |-> FALSE,
                    fields |-> <<StructP, U256, Bool>>]) @@
    (<<0, "G">> :> [name |-> <<"G">>, is_native |-> FALSE,
                    fields |-> <<TypeParameter(0), U64>>]) @@
    (<<1, "U256">> :> [name |-> <<"U", "2", "5", "6">>, is_native |-> TRUE,
                       fields |-> <<>>]) @@
    (<<2, "C">> :> [name |-> <<"C">>, is_native |-> FALSE, fields |-> <<U8>>]) @@
    (<<3, "B_C">> :> [name |-> <<"B", "_", "C">>, is_native |-> FALSE,
                      fields |-> <<U8>>]) @@
    (<<4, "B_C">> :> [name |-> <<"B", "_", "C">>, is_native |-> FALSE,
                      fields |-> <<U8>>])

get_struct(e, id) ==
    IF id = <<0, "T">>
    THEN [name |-> <<"T">>, is_native |-> FALSE, fields |-> e]
    ELSE FixedStructs[id]

get_field_types(e, id) == get_struct(e, id).fields

is_u256(e, id) ==
    Modules[id[1]].is_evm_arith /\ get_struct(e, id).is_native

RECURSIVE instantiate(_, _)
instantiate(ty, inst) ==
    CASE ty[1] = "TypeParameter" -> inst[ty[2] + 1]
      [] ty[1] = "Vector" -> Vector(instantiate(ty[2], inst))
      [] ty[1] = "Reference" -> Reference(ty[2], instantiate(ty[3], inst))
      [] ty[1] = "Struct" ->
            Struct(ty[2], ty[3],
                   [i \in 1..Len(ty[4]) |-> instantiate(ty[4][i], inst)])
      [] ty[1] = "Tuple" ->
            Tuple([i \in 1..Len(ty[2]) |-> instantiate(ty[2][i], inst)])
      [] OTHER -> ty

\* type_size with the widths of U64 and U128 exchanged.
type_size_swapped(ty) ==
    CASE ty[1] = "Primitive" ->
            (CASE ty[2] \in {"Bool", "U8"} -> 1
               [] ty[2] = "U64" -> 16
               [] ty[2] = "U128" -> 8
               [] ty[2] \in {"Address", "Signer"} -> 20
               [] OTHER -> Panic)
      [] ty[1] \in {"Struct", "Vector"} -> 32
      [] OTHER -> Panic

type_size(ty) ==
    CASE ty[1] = "Primitive" ->
            (CASE ty[2] \in {"Bool", "U8"} -> 1
               [] ty[2] = "U64" -> 8
               [] ty[2] = "U128" -> 16
               [] ty[2] \in {"Address", "Signer"} -> 20
               [] OTHER -> Panic)
      [] ty[1] \in {"Struct", "Vector"} -> 32
      [] OTHER -> Panic

type_allocates_memory(e, ty) ==
    CASE ty[1] = "Struct" -> ~is_u256(e, <<ty[2], ty[3]>>)
      [] ty[1] = "Vector" -> TRUE
      [] OTHER -> FALSE

\* ------------------------------------------------------- struct layout

s_or_v(ty) == is_vector(ty) \/ is_struct(ty)

\* The comparator with the size test reversed (smaller fields first).
field_cmp_ascending(f1, f2) ==
    IF f1[2] < f2[2] THEN "Less"
    ELSE IF f2[2] < f1[2] THEN "Greater"
    ELSE IF s_or_v(f1[3]) /\ ~s_or_v(f2[3]) THEN "Less"
    ELSE IF s_or_v(f2[3]) /\ ~s_or_v(f1[3]) THEN "Greater"
    ELSE "Equal"

\* The comparator handed to sorted_by; a field is <<logical offset, size, type>>.
field_cmp(f1, f2) ==
    IF f1[2] > f2[2] THEN "Less"
    ELSE IF f2[2] > f1[2] THEN "Greater"
    ELSE IF s_or_v(f1[3]) /\ ~s_or_v(f2[3]) THEN "Less"
    ELSE IF s_or_v(f2[3]) /\ ~s_or_v(f1[3]) THEN "Greater"
    ELSE "Equal"

\* Itertools::sorted_by is a stable sort: an element is placed behind every
\* earlier element that does not compare Greater than it.
RECURSIVE insert_sorted(_, _)
insert_sorted(sorted, f) ==
    IF sorted = <<>> THEN <<f>>
    ELSE IF field_cmp(sorted[Len(sorted)], f) = "Greater"
         THEN Append(insert_sorted(SubSeq(sorted, 1, Len(sorted) - 1), f),
                     sorted[Len(sorted)])
         ELSE Append(sorted, f)

RECURSIVE sorted_by(_)
sorted_by(fs) ==
    IF fs = <<>> THEN <<>>
    ELSE insert_sorted(sorted_by(SubSeq(fs, 1, Len(fs) - 1)), fs[Len(fs)])

StructLayoutDefault ==
    [size |-> 0, offsets |-> <<>>, field_order |-> <<>>, pointer_count |-> 0]

\* The loop recording each offset after advancing the running size.
RECURSIVE layout_fields_late(_, _)
layout_fields_late(ordered, result) ==
    IF ordered = <<>> THEN result
    ELSE LET f == Head(ordered)
         IN  layout_fields_late(Tail(ordered),
                [size |-> result.size + f[2],
                 offsets |-> (f[1] :> <<result.size + f[2], f[3]>>) @@ result.offsets,
                 field_order |-> Append(result.field_order, f[1]),
                 pointer_count |-> IF s_or_v(f[3])
                                   THEN result.pointer_count + 1
                                   ELSE result.pointer_count])

\* The loop over the ordered fields.
RECURSIVE layout_fields(_, _)
layout_fields(ordered, result) ==
    IF ordered = <<>> THEN result
    ELSE LET f == Head(ordered)
         IN  layout_fields(Tail(ordered),
                [size |-> result.size + f[2],
                 offsets |-> (f[1] :> <<result.size, f[3]>>) @@ result.offsets,
                 field_order |-> Append(result.field_order, f[1]),
                 pointer_count |-> IF s_or_v(f[3])
                                   THEN result.pointer_count + 1
                                   ELSE result.pointer_count])

\* The fields of st = <<mid, sid, inst>>, instantiated and sized.
sized_fields(e, st) ==
    LET fields == get_struct(e, <<st[1], st[2]>>).fields
    IN  [i \in 1..Len(fields) |->
            LET field_type == instantiate(fields[i], st[3])
            IN  <<i - 1, type_size(field_type), field_type>>]

compute_layout(e, st) ==
    layout_fields(sorted_by(sized_fields(e, st)), StructLayoutDefault)

\* The cache rebuilt from the new entry alone on a miss.
layouts_after_fresh(e, layouts, st) ==
    IF st \notin DOMAIN layouts
    THEN (st :> compute_layout(e, st))
    ELSE layouts

\* The cache after get_struct_layout(st).
layouts_after(e, layouts, st) ==
    IF st \notin DOMAIN layouts
    THEN (st :> compute_layout(e, st)) @@ layouts
    ELSE layouts

\* Context::get_struct_layout(st): the cache, the returned value, and whether
\* the call found its entry in the cache.
get_struct_layout(e, layouts, st) ==
    LET after == layouts_after(e, layouts, st)
    IN  [layouts |-> after, ret |-> after[st], hit |-> st \in DOMAIN layouts]

\* ------------------------------------------------- inputs of the layout

\* The types a field of the struct under test T<X> may be declared with.
FieldTypes ==
    {U8, U64, U128, Address, Vector(U8), StructP, U256,
     TypeParameter(0), Vector(TypeParameter(0))}

FieldLists == UNION {[1..n -> FieldTypes] : n \in 0..MaxFields}

\* The instantiated structs that are laid out.
LayoutKeys ==
    {<<0, "T", <<Signer>>>>, <<0, "T", <<U256>>>>, <<0, "E", <<>>>>}

NoCall == <<>>

IdleLayout ==
    /\ env = <<>>
    /\ struct_layout = <<>>
    /\ st_arg = NoCall
    /\ st_ret = [layout |-> StructLayoutDefault, hit |-> FALSE]
    /\ first_ret = <<>>

IdleMangle == mg_in = <<>> /\ mg_out = [done |-> FALSE, types |-> <<>>, each |-> <<>>]
IdleAbi ==
    /\ abi_in = <<>>
    /\ abi_out = [done |-> FALSE, each |-> <<>>, tuple |-> <<0, 0>>, sum |-> <<0, 0>>]
IdlePtr == ptr_op = "none" /\ ptr_in = <<>> /\ ptr_out = <<>>
IdleKey == memory = <<>> /\ key_in = <<>> /\ key_out = <<>>
IdleYul ==
    storage = <<>> /\ yul_op = "none" /\ yul_in = <<>> /\ yul_out = <<>> /\ hist = <<>>
IdleSubst == sp_in = <<>> /\ sp_out = [done |-> FALSE, first |-> <<>>, second |-> <<>>]
IdleEmit == used = {} /\ needed = {} /\ emitted = <<>>
IdleTargets == targets = {} /\ add_stack = <<>> /\ cb_pos = 0 /\ for_test = FALSE
IdleSel == sel_in = <<>> /\ sel_out = <<>>
IdleGen == IdleEmit /\ IdleTargets /\ IdleSel

InitLayout ==
    /\ env \in FieldLists
    /\ struct_layout = <<>>
    /\ st_arg = NoCall
    /\ st_ret = [layout |-> StructLayoutDefault, hit |-> FALSE]
    /\ first_ret = <<>>
    /\ IdleMangle /\ IdleAbi /\ IdlePtr /\ IdleKey /\ IdleYul /\ IdleSubst /\ IdleGen

GetStructLayout(st) ==
    LET r == get_struct_layout(env, struct_layout, st)
    IN  /\ struct_layout' = r.layouts
        /\ st_arg' = st
        /\ st_ret' = [layout |-> r.ret, hit |-> r.hit]
        /\ first_ret' = IF st \in DOMAIN first_ret
                        THEN first_ret
                        ELSE (st :> r.ret) @@ first_ret
        /\ UNCHANGED <<env, mangle_vars, abi_vars, ptr_vars, key_vars, yul_vars, subst_vars, gen_vars>>

NextLayout == \E st \in LayoutKeys : GetStructLayout(st)

SpecLayout == InitLayout /\ [][NextLayout]_vars

\* --------------------------------------------- properties of the layout

\* The declared type of logical field idx of the instantiated struct st.
FieldType(st, idx) ==
    instantiate(get_field_types(env, <<st[1], st[2]>>)[idx + 1], st[3])

FieldCount(st) == Len(get_field_types(env, <<st[1], st[2]>>))

RECURSIVE SumSizes(_, _, _)
SumSizes(st, order, n) ==
    IF n = 0 THEN 0
    ELSE SumSizes(st, order, n - 1) + type_size(FieldType(st, order[n]))

IsPermutation(order, n) ==
    /\ Len(order) = n
    /\ \A idx \in 0..(n - 1) : \E i \in 1..n : order[i] = idx

\* C1 (as claimed): field_order is a permutation of 0..n-1 and its first
\* pointer_count entries are exactly the fields whose type allocates memory
\* (a vector, or a struct other than the native U256), also for structs with
\* a U256 field.
C1_PointerPrefixIsAllocating ==
    \A st \in {st_arg} \ {NoCall} :
        LET L == st_ret.layout
            n == FieldCount(st)
        IN  /\ IsPermutation(L.field_order, n)
            /\ \A i \in 1..Len(L.field_order) :
                   (i <= L.pointer_count) <=>
                       type_allocates_memory(env, FieldType(st, L.field_order[i]))

KeyE == <<0, "E", <<>>>>

\* C3 (as claimed): the layout of (f0: Bool, f1: Vector<U8>, f2: U128,
\* f3: Address) has field_order [1, 2, 3, 0], pointer_count 1, offsets
\* {1 -> 0, 2 -> 32, 3 -> 48, 0 -> 68} and size 69.
C3_ExampleAsClaimed ==
    st_arg = KeyE =>
        st_ret.layout =
            [size |-> 69,
             offsets |-> (1 :> <<0, Vector(U8)>>) @@ (2 :> <<32, U128>>) @@
                         (3 :> <<48, Address>>) @@ (0 :> <<68, Bool>>),
             field_order |-> <<1, 2, 3, 0>>,
             pointer_count |-> 1]

\* C3 (amended): the layout of (f0: Bool, f1: Vector<U8>, f2: U128,
\* f3: Address) has field_order [1, 3, 2, 0] (Address, 20 bytes, precedes
\* U128, 16 bytes), pointer_count 1, offsets {1 -> 0, 3 -> 32, 2 -> 52,
\* 0 -> 68} and size 69.
C3_ExampleLayout ==
    st_arg = KeyE =>
        st_ret.layout =
            [size |-> 69,
             offsets |-> (1 :> <<0, Vector(U8)>>) @@ (3 :> <<32, Address>>) @@
                         (2 :> <<52, U128>>) @@ (0 :> <<68, Bool>>),
             field_order |-> <<1, 3, 2, 0>>,
             pointer_count |-> 1]

\* The example struct has been laid out and returned.
C3_Witness ==
    /\ st_arg = KeyE
    /\ KeyE \in DOMAIN struct_layout
    /\ st_ret.layout = struct_layout[KeyE]

\* C4: size is the sum of the field sizes, the offset of a field is the sum
\* of the sizes of the fields before it in field_order, and the byte ranges
\* of the fields are pairwise disjoint and cover exactly [0, size).
C4_OffsetsPartitionSize ==
    \A st \in {st_arg} \ {NoCall} :
        LET L == st_ret.layout
            fo == L.field_order
            n == FieldCount(st)
            lo(idx) == L.offsets[idx][1]
            hi(idx) == L.offsets[idx][1] + type_size(FieldType(st, idx))
        IN  /\ Len(fo) = n
            /\ DOMAIN L.offsets = 0..(n - 1)
            /\ L.size = SumSizes(st, [i \in 1..n |-> i - 1], n)
            /\ \A i \in 1..n :
                 /\ lo(fo[i]) = SumSizes(st, fo, i - 1)
                 /\ L.offsets[fo[i]][2] = FieldType(st, fo[i])
            /\ \A a, b \in 0..(n - 1) :
                 a # b => (hi(a) <= lo(b) \/ hi(b) <= lo(a))
            /\ \A byte \in 0..(L.size - 1) :
                 \E idx \in 0..(n - 1) : lo(idx) <= byte /\ byte < hi(idx)
            /\ \A idx \in 0..(n - 1) : 0 <= lo(idx) /\ hi(idx) <= L.size

\* A returned layout of three fields of three different sizes.
C4_Witness ==
    /\ st_arg # NoCall
    /\ st_arg \in DOMAIN struct_layout
    /\ st_ret.layout.size = 29
    /\ Len(st_ret.layout.field_order) = 3

\* C5: every call for a struct returns the layout its first call returned,
\* and a cache entry, once inserted, is never modified or removed, whichever
\* struct later calls are for.
C5_LayoutCacheStable ==
    /\ [](st_arg # NoCall =>
            /\ st_arg \in DOMAIN struct_layout
            /\ st_ret.layout = struct_layout[st_arg]
            /\ st_ret.layout = first_ret[st_arg])
    /\ [][\A st \in DOMAIN struct_layout :
             /\ st \in DOMAIN struct_layout'
             /\ struct_layout'[st] = struct_layout[st]]_vars

\* A call that was answered from the cache while the cache holds the entries
\* of other structs.
C5_Witness ==
    /\ st_arg # NoCall
    /\ st_ret.hit
    /\ Cardinality(DOMAIN struct_layout) >= 3
    /\ st_ret.layout = first_ret[st_arg]
    /\ Len(st_ret.layout.field_order) >= 2

\* ---------------------------------------------------------- name mangler
\* Strings are sequences of one-character strings.

HexDigits ==
    <<"0", "1", "2", "3", "4", "5", "6", "7", "8", "9", "a", "b", "c", "d", "e", "f">>

\* BigUint::to_str_radix(16): lower-case digits, no leading zeros, "0" for 0.
RECURSIVE to_str_radix16(_)
to_str_radix16(n) ==
    IF n < 16 THEN <<HexDigits[n + 1]>>
    ELSE Append(to_str_radix16(n \div 16), HexDigits[(n % 16) + 1])

make_contract_name(mid) ==
    <<"A">> \o to_str_radix16(Modules[mid].addr) \o <<"_">> \o Modules[mid].name

\* Itertools::join.
RECURSIVE join(_, _)
join(strs, sep) ==
    IF strs = <<>> THEN <<>>
    ELSE IF Len(strs) = 1 THEN strs[1]
    ELSE strs[1] \o sep \o join(Tail(strs), sep)

\* The {:?} rendering of a type that has no mangled form.
debug_fmt(ty) ==
    CASE ty[1] = "Primitive" -> <<"P", "r", "i", "m", "i", "t", "i", "v", "e">>
      [] ty[1] = "TypeParameter" ->
            <<"T", "y", "p", "e", "P", "a", "r", "a", "m", "e", "t", "e", "r">>
      [] ty[1] = "Tuple" -> <<"T", "u", "p", "l", "e">>
      [] ty[1] = "Reference" -> <<"R", "e", "f", "e", "r", "e", "n", "c", "e">>
      [] OTHER -> <<"?">>

unsupported(ty) ==
    <<"<", "<", "u", "n", "s", "u", "p", "p", "o", "r", "t", "e", "d", " ">>
        \o debug_fmt(ty) \o <<">", ">">>

\* mangle_types without the closing '$'.
RECURSIVE mangle_type(_, _)
RECURSIVE mangle_types(_, _)
mangle_types_unterminated(e, tys) ==
    IF tys = <<>> THEN <<>>
    ELSE <<"$">> \o join([i \in 1..Len(tys) |-> mangle_type(e, tys[i])], <<"_">>)

mangle_types(e, tys) ==
    IF tys = <<>> THEN <<>>
    ELSE <<"$">> \o join([i \in 1..Len(tys) |-> mangle_type(e, tys[i])], <<"_">>)
             \o <<"$">>

\* st = <<mid, sid, inst>>
mangle_struct(e, st) ==
    make_contract_name(st[1]) \o <<"_">> \o get_struct(e, <<st[1], st[2]>>).name
        \o mangle_types(e, st[3])

mangle_type(e, ty) ==
    CASE ty[1] = "Primitive" ->
            (CASE ty[2] = "U8" -> <<"u", "8">>
               [] ty[2] = "U64" -> <<"u", "6", "4">>
               [] ty[2] = "U128" -> <<"u", "1", "2", "8">>
               [] ty[2] = "Num" -> <<"n", "u", "m">>
               [] ty[2] = "Address" -> <<"a", "d", "d", "r", "e", "s", "s">>
               [] ty[2] = "Signer" -> <<"s", "i", "g", "n", "e", "r">>
               [] ty[2] = "Bool" -> <<"b", "o", "o", "l">>
               [] ty[2] = "Range" -> <<"r", "a", "n", "g", "e">>
               [] OTHER -> unsupported(ty))
      [] ty[1] = "Vector" -> <<"v", "e", "c">> \o mangle_types(e, <<ty[2]>>)
      [] ty[1] = "Struct" -> mangle_struct(e, <<ty[2], ty[3], ty[4]>>)
      [] OTHER -> unsupported(ty)

\* ------------------------------------------------ inputs of the mangler

ManglePrimitives == {U8, U64, U128, Num, Address, Signer, Bool, Range}

RECURSIVE VectorTypes(_)
VectorTypes(depth) ==
    IF depth = 0 THEN ManglePrimitives
    ELSE ManglePrimitives \cup {Vector(t) : t \in VectorTypes(depth - 1)}

MangleTypeSet ==
    VectorTypes(MaxVecDepth)
        \cup {StructP, U256, Struct(0, "T", <<U64>>), Struct(0, "T", <<Vector(U8)>>),
              EventStore, TypeParameter(0)}

MangleInputs == UNION {[1..n -> MangleTypeSet] : n \in 0..MaxTypes}

InitMangle ==
    /\ mg_in \in MangleInputs
    /\ mg_out = [done |-> FALSE, types |-> <<>>, each |-> <<>>]
    /\ IdleLayout /\ IdleAbi /\ IdlePtr /\ IdleKey /\ IdleYul /\ IdleSubst /\ IdleGen

\* One call of mangle_types on the type list, and of mangle_type on each of
\* its elements.
MangleTypes ==
    /\ ~mg_out.done
    /\ mg_out' = [done |-> TRUE,
                  types |-> mangle_types(env, mg_in),
                  each |-> [i \in 1..Len(mg_in) |-> mangle_type(env, mg_in[i])]]
    /\ UNCHANGED <<mg_in, layout_vars, abi_vars, ptr_vars, key_vars, yul_vars, subst_vars, gen_vars>>

NextMangle == MangleTypes

SpecMangle == InitMangle /\ [][NextMangle]_vars

\* ---------------------------------------------- properties of the mangler

\* The strings the claim gives for primitives and vectors.
RECURSIVE ClaimedMangling(_)
ClaimedMangling(ty) ==
    CASE ty = U8 -> <<"u", "8">>
      [] ty = U64 -> <<"u", "6", "4">>
      [] ty = U128 -> <<"u", "1", "2", "8">>
      [] ty = Num -> <<"n", "u", "m">>
      [] ty = Address -> <<"a", "d", "d", "r", "e", "s", "s">>
      [] ty = Signer -> <<"s", "i", "g", "n", "e", "r">>
      [] ty = Bool -> <<"b", "o", "o", "l">>
      [] ty = Range -> <<"r", "a", "n", "g", "e">>
      [] ty[1] = "Vector" ->
            <<"v", "e", "c", "$">> \o ClaimedMangling(ty[2]) \o <<"$">>

RECURSIVE JoinedWithUnderscore(_, _)
JoinedWithUnderscore(strs, n) ==
    IF n = 0 THEN <<>>
    ELSE IF n = 1 THEN strs[1]
    ELSE JoinedWithUnderscore(strs, n - 1) \o <<"_">> \o strs[n]

\* C6: mangle_types is "" for the empty list and otherwise '$', the mangled
\* elements joined by '_', '$'; a primitive mangles to its fixed name and
\* Vector(T) to "vec" followed by mangle_types([T]); mangle_types([U64]) is
\* "$u64$", mangle_type(Vector(U8)) is "vec$u8$", mangle_type(Vector(Vector(
\* Bool))) is "vec$vec$bool$$".
C6_MangleGrammar ==
    mg_out.done =>
        /\ Len(mg_out.each) = Len(mg_in)
        /\ mg_in = <<>> => mg_out.types = <<>>
        /\ mg_in # <<>> =>
             mg_out.types =
                <<"$">> \o JoinedWithUnderscore(mg_out.each, Len(mg_in)) \o <<"$">>
        /\ \A i \in 1..Len(mg_in) :
             mg_in[i] \in VectorTypes(MaxVecDepth) =>
                mg_out.each[i] = ClaimedMangling(mg_in[i])
        /\ mg_in = <<U64>> => mg_out.types = <<"$", "u", "6", "4", "$">>
        /\ \A i \in 1..Len(mg_in) :
             /\ mg_in[i] = Vector(U8) =>
                  mg_out.each[i] = <<"v", "e", "c", "$", "u", "8", "$">>
             /\ mg_in[i] = Vector(Vector(Bool)) =>
                  mg_out.each[i] = <<"v", "e", "c", "$", "v", "e", "c", "$",
                                     "b", "o", "o", "l", "$", "$">>

\* mangle_types([Vector(Vector(Bool)), U64]) has run.
C6_Witness ==
    /\ mg_out.done
    /\ mg_in = <<Vector(Vector(Bool)), U64>>
    /\ mg_out.types = <<"$", "v", "e", "c", "$", "v", "e", "c", "$", "b", "o", "o",
                        "l", "$", "$", "_", "u", "6", "4", "$">>

\* ------------------------------------------------------------ ABI rules

\* Whether abi_is_static_type(ty) panics.  The closure `conjunction` maps
\* abi_is_static_type over all the types and collects before it tests, so a
\* panic on any of them panics the call; a vector is answered without a look
\* at its element type.
RECURSIVE abi_is_static_type_panics(_, _)
abi_is_static_type_panics(e, ty) ==
    CASE ty[1] = "Primitive" ->
            ty[2] \notin {"Bool", "U8", "U64", "U128", "Address", "Signer"}
      [] ty[1] = "Vector" -> FALSE
      [] ty[1] = "Tuple" ->
            \E i \in 1..Len(ty[2]) : abi_is_static_type_panics(e, ty[2][i])
      [] ty[1] = "Struct" ->
            IF is_u256(e, <<ty[2], ty[3]>>) THEN FALSE
            ELSE LET tys == get_field_types(e, <<ty[2], ty[3]>>)
                 IN  \E i \in 1..Len(tys) : abi_is_static_type_panics(e, tys[i])
      [] OTHER -> TRUE

\* The value of abi_is_static_type(ty) when it does not panic.
RECURSIVE abi_is_static_type(_, _)
abi_is_static_type(e, ty) ==
    CASE ty[1] = "Primitive" -> TRUE
      [] ty[1] = "Vector" -> FALSE
      [] ty[1] = "Tuple" ->
            \A i \in 1..Len(ty[2]) : abi_is_static_type(e, ty[2][i])
      [] ty[1] = "Struct" ->
            IF is_u256(e, <<ty[2], ty[3]>>) THEN TRUE
            ELSE LET tys == get_field_types(e, <<ty[2], ty[3]>>)
                 IN  \A i \in 1..Len(tys) : abi_is_static_type(e, tys[i])
      [] OTHER -> FALSE

\* Iterator::sum over sizes, Panic when computing one of them panicked.
RECURSIVE sum_sizes(_)
sum_sizes(sizes) ==
    IF sizes = <<>> THEN 0
    ELSE LET rest == sum_sizes(Tail(sizes))
         IN  IF Head(sizes) = Panic \/ rest = Panic THEN Panic
             ELSE Head(sizes) + rest

RECURSIVE abi_type_head_size(_, _, _)
abi_type_head_sizes_vec(e, tys, padded) ==
    [i \in 1..Len(tys) |-> <<tys[i], abi_type_head_size(e, tys[i], padded)>>]

abi_type_head_sizes_sum(e, tys, padded) ==
    LET size_vec == abi_type_head_sizes_vec(e, tys, padded)
    IN  sum_sizes([i \in 1..Len(size_vec) |-> size_vec[i][2]])

abi_type_head_size(e, ty, padded) ==
    IF abi_is_static_type_panics(e, ty) THEN Panic
    ELSE IF abi_is_static_type(e, ty)
    THEN CASE ty[1] = "Primitive" ->
                (CASE ty[2] = "Bool" -> IF padded THEN 32 ELSE 1
                   [] ty[2] = "U8" -> IF padded THEN 32 ELSE 1
                   [] ty[2] = "U64" -> IF padded THEN 32 ELSE 8
                   [] ty[2] = "U128" -> IF padded THEN 32 ELSE 16
                   [] ty[2] \in {"Address", "Signer"} -> IF padded THEN 32 ELSE 20
                   [] OTHER -> Panic)
           [] ty[1] = "Tuple" -> abi_type_head_sizes_sum(e, ty[2], padded)
           [] ty[1] = "Struct" ->
                IF is_u256(e, <<ty[2], ty[3]>>) THEN 32
                ELSE abi_type_head_sizes_sum(
                        e, get_field_types(e, <<ty[2], ty[3]>>), padded)
           [] OTHER -> Panic
    ELSE 32

\* -------------------------------------------- inputs of the ABI helpers

AbiTypeSet ==
    {Bool, U8, U64, U128, Address, Signer, Vector(U8), U256,
     StructP, StructE, StructW, StructG(U64), Num}

AbiInputs == UNION {[1..n -> AbiTypeSet] : n \in 0..MaxAbiTypes}

AbiNotRun ==
    [done |-> FALSE, each |-> <<>>, tuple |-> <<0, 0>>, sum |-> <<0, 0>>]

InitAbi ==
    /\ abi_in \in AbiInputs
    /\ abi_out = AbiNotRun
    /\ IdleLayout /\ IdleMangle /\ IdlePtr /\ IdleKey /\ IdleYul /\ IdleSubst /\ IdleGen

\* abi_type_head_size of every type of the list and of the tuple of the list,
\* and abi_type_head_sizes_sum of the list, each <<unpadded, padded>>.
AbiHeadSizes ==
    /\ ~abi_out.done
    /\ abi_out' =
         [done |-> TRUE,
          each |-> [i \in 1..Len(abi_in) |->
                      <<abi_type_head_size(env, abi_in[i], FALSE),
                        abi_type_head_size(env, abi_in[i], TRUE)>>],
          tuple |-> <<abi_type_head_size(env, Tuple(abi_in), FALSE),
                      abi_type_head_size(env, Tuple(abi_in), TRUE)>>,
          sum |-> <<abi_type_head_sizes_sum(env, abi_in, FALSE),
                    abi_type_head_sizes_sum(env, abi_in, TRUE)>>]
    /\ UNCHANGED <<abi_in, layout_vars, mangle_vars, ptr_vars, key_vars, yul_vars, subst_vars, gen_vars>>

NextAbi == AbiHeadSizes

SpecAbi == InitAbi /\ [][NextAbi]_vars

\* --------------------------------------- properties of the ABI helpers

\* The fields of a struct type with its type arguments substituted.
InstFields(ty) ==
    LET tys == get_field_types(env, <<ty[2], ty[3]>>)
    IN  [i \in 1..Len(tys) |-> instantiate(tys[i], ty[4])]

\* A type built from the six ABI primitives, vectors, structs and tuples.
RECURSIVE IsAbiType(_)
IsAbiType(ty) ==
    CASE ty[1] = "Primitive" ->
            ty[2] \in {"Bool", "U8", "U64", "U128", "Address", "Signer"}
      [] ty[1] = "Vector" -> IsAbiType(ty[2])
      [] ty[1] = "Tuple" -> \A i \in 1..Len(ty[2]) : IsAbiType(ty[2][i])
      [] ty[1] = "Struct" ->
            \A i \in 1..Len(InstFields(ty)) : IsAbiType(InstFields(ty)[i])
      [] OTHER -> FALSE

\* Dynamic: a vector, or a struct or tuple that transitively contains one.
RECURSIVE IsDynamic(_)
IsDynamic(ty) ==
    CASE ty[1] = "Vector" -> TRUE
      [] ty[1] = "Tuple" -> \E i \in 1..Len(ty[2]) : IsDynamic(ty[2][i])
      [] ty[1] = "Struct" ->
            \E i \in 1..Len(InstFields(ty)) : IsDynamic(InstFields(ty)[i])
      [] OTHER -> FALSE

\* The head size the claim gives.
RECURSIVE ClaimedHeadSize(_, _)
ClaimedHeadSize(ty, padded) ==
    LET Sum(tys) ==
            LET S[n \in 0..Len(tys)] ==
                    IF n = 0 THEN 0 ELSE S[n - 1] + ClaimedHeadSize(tys[n], padded)
            IN  S[Len(tys)]
    IN  IF IsDynamic(ty) THEN 32
        ELSE CASE ty \in {Bool, U8} -> IF padded THEN 32 ELSE 1
               [] ty = U64 -> IF padded THEN 32 ELSE 8
               [] ty = U128 -> IF padded THEN 32 ELSE 16
               [] ty \in {Address, Signer} -> IF padded THEN 32 ELSE 20
               [] ty = U256 -> 32
               [] ty[1] = "Struct" /\ ty # U256 -> Sum(InstFields(ty))
               [] ty[1] = "Tuple" -> Sum(ty[2])

ClaimedSum(tys, padded) ==
    LET S[n \in 0..Len(tys)] ==
            IF n = 0 THEN 0 ELSE S[n - 1] + ClaimedHeadSize(tys[n], padded)
    IN  S[Len(tys)]

\* C7 (as claimed): the head size is 32 for every dynamic type; for a static
\* type it is 1/32 for Bool and U8, 8/32 for U64, 16/32 for U128, 20/32 for
\* Address and Signer, 32 for U256 and the sum over the fields or elements
\* for another struct or a tuple; abi_type_head_sizes_sum is the sum over the
\* list, 96 padded and 29 unpadded for (U8, U64, Address).
C7_HeadSizes ==
    abi_out.done =>
        /\ \A i \in 1..Len(abi_in) :
             IsAbiType(abi_in[i]) =>
                abi_out.each[i] = <<ClaimedHeadSize(abi_in[i], FALSE),
                                    ClaimedHeadSize(abi_in[i], TRUE)>>
        /\ (\A i \in 1..Len(abi_in) : IsAbiType(abi_in[i])) =>
             /\ abi_out.tuple = <<ClaimedHeadSize(Tuple(abi_in), FALSE),
                                  ClaimedHeadSize(Tuple(abi_in), TRUE)>>
             /\ abi_out.sum = <<ClaimedSum(abi_in, FALSE), ClaimedSum(abi_in, TRUE)>>
        /\ abi_in = <<U8, U64, Address>> => abi_out.sum = <<29, 96>>

\* No struct reachable from the type declares a field of a type parameter.
RECURSIVE NoGenericField(_)
NoGenericField(ty) ==
    CASE ty[1] = "Vector" -> NoGenericField(ty[2])
      [] ty[1] = "Tuple" -> \A i \in 1..Len(ty[2]) : NoGenericField(ty[2][i])
      [] ty[1] = "Struct" ->
            LET tys == get_field_types(env, <<ty[2], ty[3]>>)
            IN  \A i \in 1..Len(tys) :
                    tys[i][1] # "TypeParameter" /\ NoGenericField(tys[i])
      [] OTHER -> TRUE

\* The head sizes of C7 on the types that reach no generic struct: on these
\* the code returns what the claim says.
HeadSizesOfNonGenericTypes ==
    abi_out.done =>
        /\ \A i \in 1..Len(abi_in) :
             (IsAbiType(abi_in[i]) /\ NoGenericField(abi_in[i])) =>
                abi_out.each[i] = <<ClaimedHeadSize(abi_in[i], FALSE),
                                    ClaimedHeadSize(abi_in[i], TRUE)>>
        /\ (\A i \in 1..Len(abi_in) :
                IsAbiType(abi_in[i]) /\ NoGenericField(abi_in[i])) =>
             /\ abi_out.tuple = <<ClaimedHeadSize(Tuple(abi_in), FALSE),
                                  ClaimedHeadSize(Tuple(abi_in), TRUE)>>
             /\ abi_out.sum = <<ClaimedSum(abi_in, FALSE), ClaimedSum(abi_in, TRUE)>>
        /\ abi_in = <<U8, U64, Address>> => abi_out.sum = <<29, 96>>

\* ------------------------------------------------------------ EVM words
\* A word is a function from bit positions 0..255 to {0, 1}.

WordBits == 256

BitsWord(S) == [i \in 0..(WordBits - 1) |-> IF i \in S THEN 1 ELSE 0]

\* The word of a number below 2^30.
NatToWord(n) ==
    [i \in 0..(WordBits - 1) |-> IF i < 30 THEN (n \div (2 ^ i)) % 2 ELSE 0]

\* TLC computes a function when it is applied, over again for each bit.  An
\* operand that has been compared is computed once and kept, so the
\* operations below compare their operands before they read them.
Computed(w) == w = w

IsSmallWord(w) == Computed(w) /\ \A i \in 30..(WordBits - 1) : w[i] = 0

\* The number of a word below 2^30.
WordToNat(w) ==
    LET V[i \in 0..30] == IF i = 0 THEN 0 ELSE V[i - 1] + w[i - 1] * (2 ^ (i - 1))
    IN  CASE Computed(w) -> V[30]

evm_and(x, y) ==
    CASE Computed(x) /\ Computed(y) -> [i \in 0..(WordBits - 1) |-> x[i] * y[i]]

evm_or(x, y) ==
    CASE Computed(x) /\ Computed(y) ->
        [i \in 0..(WordBits - 1) |-> IF x[i] = 1 \/ y[i] = 1 THEN 1 ELSE 0]

evm_not(x) == CASE Computed(x) -> [i \in 0..(WordBits - 1) |-> 1 - x[i]]

\* shl(bits, value): value * 2^bits mod 2^256, zero for bits >= 256.
evm_shl(bits, x) ==
    IF Computed(x) /\ IsSmallWord(bits) /\ WordToNat(bits) < WordBits
    THEN LET n == WordToNat(bits)
         IN  [i \in 0..(WordBits - 1) |-> IF i >= n THEN x[i - n] ELSE 0]
    ELSE BitsWord({})

\* shr(bits, value): value div 2^bits, zero for bits >= 256.
evm_shr(bits, x) ==
    IF Computed(x) /\ IsSmallWord(bits) /\ WordToNat(bits) < WordBits
    THEN LET n == WordToNat(bits)
         IN  [i \in 0..(WordBits - 1) |-> IF i + n < WordBits THEN x[i + n] ELSE 0]
    ELSE BitsWord({})

\* Limb k of a word: its bits 16k .. 16k+15 as a number.
WordLimb(w, k) ==
    LET V[j \in 0..16] ==
            IF j = 0 THEN 0 ELSE V[j - 1] + w[16 * k + j - 1] * (2 ^ (j - 1))
    IN  V[16]

\* The word of sixteen limbs, limbs[1] the least significant.
LimbsWord(limbs) ==
    [i \in 0..(WordBits - 1) |-> (limbs[(i \div 16) + 1] \div (2 ^ (i % 16))) % 2]

\* add(x, y): x + y mod 2^256, limb by limb with the carry.
RECURSIVE add_limbs(_, _, _, _, _)
add_limbs(x, y, k, carry, acc) ==
    IF k = WordBits \div 16 THEN acc
    ELSE LET t == WordLimb(x, k) + WordLimb(y, k) + carry
         IN  add_limbs(x, y, k + 1, t \div 65536, Append(acc, t % 65536))

evm_add(x, y) ==
    CASE Computed(x) /\ Computed(y) -> LimbsWord(add_limbs(x, y, 0, 0, <<>>))

\* Byte k of a word, byte 0 the most significant.
WordByte(w, k) ==
    LET lo == WordBits - 8 * (k + 1)
    IN  w[lo] + 2 * w[lo + 1] + 4 * w[lo + 2] + 8 * w[lo + 3] + 16 * w[lo + 4]
            + 32 * w[lo + 5] + 64 * w[lo + 6] + 128 * w[lo + 7]

\* ------------------------------------------------------ pointer helpers

\* MakePtr without the shift of the offset.
MakePtr_unshifted(is_storage, offs) == evm_or(is_storage, offs)

MakePtr(is_storage, offs) == evm_or(is_storage, evm_shl(NatToWord(1), offs))

IsStoragePtr(ptr) == evm_and(ptr, NatToWord(1))

OffsetPtr(ptr) == evm_shr(NatToWord(1), ptr)

\* IndexPtr adding the displacement to the pointer word itself.
IndexPtr_raw(ptr, offs) == evm_add(ptr, offs)

IndexPtr(ptr, offs) == MakePtr(IsStoragePtr(ptr), evm_add(OffsetPtr(ptr), offs))

\* ------------------------------------------ inputs of the pointer helpers

ProbeBits == (0..(LowBits - 1)) \cup ((WordBits - HighBits)..(WordBits - 1))

ProbeWords ==
    {BitsWord(S) : S \in SUBSET ProbeBits}
        \cup {NatToWord(4660), NatToWord(9321), NatToWord(7),
              BitsWord(0..(WordBits - 1)), BitsWord(0..(WordBits - 2))}

InitPtr ==
    /\ ptr_op = "none"
    /\ ptr_in \in ProbeWords \X ProbeWords
    /\ ptr_out = <<>>
    /\ IdleLayout /\ IdleMangle /\ IdleAbi /\ IdleKey /\ IdleYul /\ IdleSubst /\ IdleGen

\* ptr := MakePtr(is_storage, offs), read back with IsStoragePtr and OffsetPtr.
CallMakePtr ==
    /\ ptr_op = "none"
    /\ ptr_in[1] \in {NatToWord(0), NatToWord(1)}
    /\ ptr_op' = "MakePtr"
    /\ LET ptr == MakePtr(ptr_in[1], ptr_in[2])
       IN  ptr_out' = <<ptr, IsStoragePtr(ptr), OffsetPtr(ptr)>>
    /\ UNCHANGED <<ptr_in, layout_vars, mangle_vars, abi_vars, key_vars, yul_vars, subst_vars, gen_vars>>

\* new_ptr := IndexPtr(ptr, offs), read back with IsStoragePtr and OffsetPtr.
CallIndexPtr ==
    /\ ptr_op = "none"
    /\ ptr_op' = "IndexPtr"
    /\ LET new_ptr == IndexPtr(ptr_in[1], ptr_in[2])
       IN  ptr_out' = <<new_ptr, IsStoragePtr(new_ptr), OffsetPtr(new_ptr)>>
    /\ UNCHANGED <<ptr_in, layout_vars, mangle_vars, abi_vars, key_vars, yul_vars, subst_vars, gen_vars>>

NextPtr == CallMakePtr \/ CallIndexPtr

SpecPtr == InitPtr /\ [][NextPtr]_vars

\* -------------------------------------- properties of the pointer helpers

\* C8: for s in {0, 1} and o < 2^255, IsStoragePtr(MakePtr(s, o)) = s and
\* OffsetPtr(MakePtr(s, o)) = o; MakePtr(1, 0x1234) = 0x2469.
C8_MakePtrRoundTrip ==
    (ptr_op = "MakePtr" /\ ptr_in[2][WordBits - 1] = 0) =>
        /\ ptr_out[2] = ptr_in[1]
        /\ ptr_out[3] = ptr_in[2]
        /\ ptr_in = <<NatToWord(1), NatToWord(4660)>> => ptr_out[1] = NatToWord(9321)

\* A storage pointer made from an offset with bit 254 set.
C8_Witness ==
    /\ ptr_op = "MakePtr"
    /\ ptr_in[1] = NatToWord(1)
    /\ ptr_in[2][WordBits - 2] = 1
    /\ ptr_in[2][WordBits - 1] = 0
    /\ ptr_out[3] = ptr_in[2]

\* x + y mod 2^256 bit by bit: a carry enters bit i when some lower bit j
\* generates one (both bits set) and every bit between j and i passes it on.
PlusWord(x, y) ==
    LET Carry(i) ==
            \E j \in 0..(i - 1) :
                /\ x[j] = 1 /\ y[j] = 1
                /\ \A k \in (j + 1)..(i - 1) : x[k] + y[k] >= 1
    IN  [i \in 0..(WordBits - 1) |->
            (x[i] + y[i] + (IF Carry(i) THEN 1 ELSE 0)) % 2]

\* C9: IndexPtr(p, d) has the storage bit of p and the offset OffsetPtr(p) + d,
\* taken modulo 2^255 when the sum reaches 2^255 or more;
\* IndexPtr(0x2469, 7) = MakePtr(1, 0x123b) = 0x2477.
C9_IndexPtrOffset ==
    ptr_op = "IndexPtr" =>
        LET p == ptr_in[1]
            d == ptr_in[2]
            offs == [i \in 0..(WordBits - 1) |->
                        IF i < WordBits - 1 THEN p[i + 1] ELSE 0]
            sum == PlusWord(offs, d)
        IN  /\ ptr_out[2] = BitsWord(IF p[0] = 1 THEN {0} ELSE {})
            /\ ptr_out[3] = [i \in 0..(WordBits - 1) |->
                                IF i < WordBits - 1 THEN sum[i] ELSE 0]
            /\ ptr_in = <<NatToWord(9321), NatToWord(7)>> =>
                    ptr_out[1] = NatToWord(9335)

\* A storage pointer indexed past 2^255: the offset of p has bit 254 set and
\* so has the displacement.
C9_Witness ==
    /\ ptr_op = "IndexPtr"
    /\ ptr_in[1][0] = 1
    /\ ptr_in[1][WordBits - 1] = 1
    /\ ptr_in[2][WordBits - 2] = 1
    /\ ptr_out[2] = NatToWord(1)
    /\ ptr_out[3][WordBits - 2] = 0

\* ---------------------------------------------------------- storage keys

\* The placeholders of the memory map.
USED_MEM == 160
MEM_SIZE_LOC == 0
SCRATCH1_LOC == 32
SCRATCH2_LOC == 64
LINEAR_STORAGE_GROUP == 0
WORD_AND_STORAGE_GROUP_LENGTH == 36
LINKED_STORAGE_CATEGORY == 1
LINKED_STORAGE_COUNTER_LOC == 128

\* mstore(p, v): the 32 bytes of v at p .. p+31, most significant first.
mstore(mem, p, v) ==
    [a \in DOMAIN mem |-> IF p <= a /\ a < p + 32 THEN WordByte(v, a - p) ELSE mem[a]]

\* keccak256(p, n) is kept symbolic: the hash of a byte string is the record
\* of that string, so two keys are equal exactly when their pre-images are.
keccak256(mem, p, n) == [preimage |-> [i \in 1..n |-> mem[p + i - 1]]]

\* StorageKey storing the group in the top four bytes of the scratch word.
StorageKey_shifted(mem, group, word) ==
    LET m1 == mstore(mem, SCRATCH1_LOC, word)
        m2 == mstore(m1, SCRATCH2_LOC, evm_shl(NatToWord(224), group))
    IN  [memory |-> m2,
         key |-> keccak256(m2, SCRATCH1_LOC, WORD_AND_STORAGE_GROUP_LENGTH)]

\* StorageKey(group, word): the memory after the call and the key.
StorageKey(mem, group, word) ==
    LET m1 == mstore(mem, SCRATCH1_LOC, word)
        m2 == mstore(m1, SCRATCH2_LOC, group)
    IN  [memory |-> m2,
         key |-> keccak256(m2, SCRATCH1_LOC, WORD_AND_STORAGE_GROUP_LENGTH)]

\* ------------------------------------------------- inputs of StorageKey

\* Storage groups are 4 bytes long: 0 .. MaxGroup and 2^32 - 1.
Groups == {NatToWord(g) : g \in 0..MaxGroup} \cup {BitsWord(0..31)}

KeyWords == {NatToWord(0), NatToWord(1), BitsWord(0..(WordBits - 1))}

\* The memory the bootstrap of an emitted contract leaves: USED_MEM at
\* MEM_SIZE_LOC, zeros elsewhere.
InitKey ==
    /\ memory = mstore([a \in 0..(USED_MEM - 1) |-> 0], MEM_SIZE_LOC,
                       NatToWord(USED_MEM))
    /\ key_in = <<>>
    /\ key_out = <<>>
    /\ IdleLayout /\ IdleMangle /\ IdleAbi /\ IdlePtr /\ IdleYul /\ IdleSubst /\ IdleGen

\* key := StorageKey(group, word); the arguments and keys of the last two
\* calls are kept, latest first.
CallStorageKey(group, word) ==
    LET r == StorageKey(memory, group, word)
    IN  /\ memory' = r.memory
        /\ key_in' = IF key_in = <<>> THEN <<<<group, word>>>>
                      ELSE <<<<group, word>>, key_in[1]>>
        /\ key_out' = IF key_out = <<>> THEN <<r.key>> ELSE <<r.key, key_out[1]>>
        /\ UNCHANGED <<layout_vars, mangle_vars, abi_vars, ptr_vars, yul_vars, subst_vars, gen_vars>>

NextKey == \E group \in Groups, word \in KeyWords : CallStorageKey(group, word)

SpecKey == InitKey /\ [][NextKey]_vars

\* ------------------------------------------------ properties of StorageKey

\* C10 (as claimed): for one word and two distinct groups below 2^32 the
\* 36-byte pre-images hashed by StorageKey differ.
C10_PreimageSeparatesGroups ==
    (/\ Len(key_in) = 2
     /\ key_in[1][2] = key_in[2][2]
     /\ key_in[1][1] # key_in[2][1])
        => key_out[1].preimage # key_out[2].preimage

\* ------------------------------------------------- more EVM instructions

BoolWord(b) == BitsWord(IF b THEN {0} ELSE {})

\* x < y as unsigned numbers: they differ first, from the top, at a bit
\* that is set in y.
word_lt(x, y) ==
    \E i \in 0..(WordBits - 1) :
        /\ x[i] < y[i]
        /\ \A j \in (i + 1)..(WordBits - 1) : x[j] = y[j]

evm_lt(x, y) == BoolWord(word_lt(x, y))

evm_gt(x, y) == BoolWord(word_lt(y, x))

evm_eq(x, y) == BoolWord(x = y)

evm_iszero(x) == BoolWord(x = BitsWord({}))

\* sub(x, y): x - y mod 2^256, as x + not(y) + 1.
evm_sub(x, y) == evm_add(evm_add(x, evm_not(y)), NatToWord(1))

\* byte(n, x): byte n of x, byte 0 the most significant; zero for n >= 32.
evm_byte(n, x) ==
    IF IsSmallWord(n) /\ WordToNat(n) < 32
    THEN NatToWord(WordByte(x, WordToNat(n)))
    ELSE BitsWord({})

\* mload(p): the word of the 32 bytes at p .. p+31; memory never written
\* reads as zero.
mload(mem, p) ==
    [i \in 0..(WordBits - 1) |->
        LET a == p + 31 - (i \div 8)
        IN  IF a \in DOMAIN mem THEN (mem[a] \div (2 ^ (i % 8))) % 2 ELSE 0]

\* sload(key): storage never written reads as zero.
sload(sto, key) == IF key \in DOMAIN sto THEN sto[key] ELSE BitsWord({})

sstore(sto, key, v) == (key :> v) @@ sto

\* A Yul `if` or a `switch ... case 0 ... default` takes the branch for
\* every non-zero condition.
yul_true(c) == c # BitsWord({})

\* --------------------------------------------------- byte-level helpers

MaskForSize(size) ==
    evm_sub(evm_shl(evm_shl(size, NatToWord(3)), NatToWord(1)), NatToWord(1))

ExtractBytes(word, start, size) ==
    IF size = NatToWord(1)
    THEN evm_byte(start, word)
    ELSE LET shift_bits ==
                evm_shl(NatToWord(3), evm_sub(evm_sub(NatToWord(32), start), size))
         IN  evm_and(evm_shr(shift_bits, word), MaskForSize(size))

InjectBytes(word, start, size, bytes) ==
    LET shift_bits ==
            evm_shl(NatToWord(3), evm_sub(evm_sub(NatToWord(32), start), size))
        neg_mask == evm_not(evm_shl(shift_bits, MaskForSize(size)))
        word1 == evm_and(word, neg_mask)
    IN  evm_or(word1, evm_shl(shift_bits, bytes))

\* <<word_offs, byte_offset>>
ToWordOffs(offs) == <<evm_shr(NatToWord(5), offs), evm_and(offs, NatToWord(31))>>

OverflowBytes(byte_offset, size) ==
    LET available_bytes == evm_sub(NatToWord(32), byte_offset)
    IN  IF ~yul_true(evm_gt(size, available_bytes))
        THEN NatToWord(0)
        ELSE evm_sub(size, available_bytes)

MemoryLoadBytes(mem, offs, size) ==
    LET bit_end == evm_shl(NatToWord(3), evm_sub(NatToWord(32), size))
    IN  evm_shr(bit_end, mload(mem, WordToNat(offs)))

\* The memory after MemoryStoreBytes(offs, size, val).
MemoryStoreBytes(mem, offs, size, val) ==
    LET bit_end == evm_shl(NatToWord(3), evm_sub(NatToWord(32), size))
        mask == evm_shl(bit_end, MaskForSize(size))
        p == WordToNat(offs)
    IN  mstore(mem, p, evm_or(evm_and(mload(mem, p), evm_not(mask)),
                              evm_shl(bit_end, val)))

\* StorageLoadBytes(offs, size): the memory after the call (StorageKey
\* writes the scratch words) and the value loaded.
StorageLoadBytes(mem, sto, offs, size) ==
    LET wb == ToWordOffs(offs)
        word_offs == wb[1]
        byte_offs == wb[2]
        k1 == StorageKey(mem, NatToWord(LINEAR_STORAGE_GROUP), word_offs)
        val1 == ExtractBytes(sload(sto, k1.key), byte_offs, size)
        overflow_bytes == OverflowBytes(byte_offs, size)
        k2 == StorageKey(k1.memory, NatToWord(LINEAR_STORAGE_GROUP),
                         evm_add(word_offs, NatToWord(1)))
        extra_bytes == ExtractBytes(sload(sto, k2.key), NatToWord(0), overflow_bytes)
    IN  IF yul_true(evm_not(evm_iszero(overflow_bytes)))
        THEN [memory |-> k2.memory,
              val |-> evm_or(evm_shl(evm_shl(NatToWord(3), overflow_bytes), val1),
                             extra_bytes)]
        ELSE [memory |-> k1.memory, val |-> val1]

\* StorageStoreBytes(offs, size, bytes): the memory and storage after the call.
StorageStoreBytes(mem, sto, offs, size, bytes) ==
    LET wb == ToWordOffs(offs)
        word_offs == wb[1]
        byte_offs == wb[2]
        k1 == StorageKey(mem, NatToWord(LINEAR_STORAGE_GROUP), word_offs)
        overflow_bytes == OverflowBytes(byte_offs, size)
        used_bytes == evm_sub(size, overflow_bytes)
        higher_bytes == evm_shr(used_bytes, bytes)
        lower_bytes == evm_and(bytes, MaskForSize(overflow_bytes))
        sto1 == sstore(sto, k1.key,
                       InjectBytes(sload(sto, k1.key), byte_offs, used_bytes,
                                   higher_bytes))
        k2 == StorageKey(k1.memory, NatToWord(LINEAR_STORAGE_GROUP),
                         evm_add(word_offs, NatToWord(1)))
    IN  IF overflow_bytes = NatToWord(0)
        THEN [memory |-> k1.memory,
              storage |-> sstore(sto, k1.key,
                                 InjectBytes(sload(sto, k1.key), byte_offs, size,
                                             bytes))]
        ELSE [memory |-> k2.memory,
              storage |-> sstore(sto1, k2.key,
                                 InjectBytes(sload(sto1, k2.key), NatToWord(0),
                                             overflow_bytes, lower_bytes))]

\* ------------------------------------------- inputs of the storage helpers

\* The word whose byte k (byte 0 the most significant) is f[k].
BytesWord(f) ==
    [i \in 0..(WordBits - 1) |-> (f[31 - (i \div 8)] \div (2 ^ (i % 8))) % 2]

BootMemory ==
    mstore([a \in 0..(USED_MEM - 1) |-> 0], MEM_SIZE_LOC, NatToWord(USED_MEM))

\* The storage key of word w of linear storage.
LinearKey(w) == StorageKey(BootMemory, NatToWord(LINEAR_STORAGE_GROUP), NatToWord(w)).key

\* Contents of the linear storage words 0 .. MaxWordOffs left by earlier
\* transactions: nothing, every byte 0xff, or byte a of linear storage = a + 1.
StorageImages ==
    { <<>>,
      [key \in {LinearKey(w) : w \in 0..MaxWordOffs} |-> BitsWord(0..(WordBits - 1))],
      [key \in {LinearKey(w) : w \in 0..MaxWordOffs} |->
          LET w == CHOOSE w \in 0..MaxWordOffs : LinearKey(w) = key
          IN  BytesWord([k \in 0..31 |-> (32 * w + k + 1) % 256])] }

ByteOffsets == {32 * w + b : w \in 0..(MaxWordOffs - 1), b \in {0, 8, 20, 27, 31}}

LoadSizes == {1, 8, 16, 32}

StoreSizes == {1, 2, 3, 8, 16, 32}

\* Values of n bytes: zero, every byte 0xff, and bytes 0xa1, 0xa2, ...
SizedValues(n) ==
    { NatToWord(0),
      BitsWord(0..(8 * n - 1)),
      BytesWord([k \in 0..31 |-> IF k >= 32 - n THEN 161 + k - (32 - n) ELSE 0]) }

InitStorage ==
    /\ memory = BootMemory
    /\ storage \in StorageImages
    /\ yul_op = "none"
    /\ yul_in = <<>>
    /\ yul_out = <<>>
    /\ hist = <<>>
    /\ key_in = <<>>
    /\ key_out = <<>>
    /\ IdleLayout /\ IdleMangle /\ IdleAbi /\ IdlePtr /\ IdleSubst /\ IdleGen

CallStorageLoadBytes(offs, size) ==
    /\ yul_op = "none"
    /\ LET r == StorageLoadBytes(memory, storage, NatToWord(offs), NatToWord(size))
       IN  /\ memory' = r.memory
           /\ yul_out' = <<r.val>>
    /\ yul_op' = "StorageLoadBytes"
    /\ yul_in' = <<offs, size>>
    /\ UNCHANGED <<storage, hist, key_in, key_out,
                   layout_vars, mangle_vars, abi_vars, ptr_vars, subst_vars, gen_vars>>

CallStorageStoreBytes(offs, size, val) ==
    /\ yul_op = "none"
    /\ LET r == StorageStoreBytes(memory, storage, NatToWord(offs), NatToWord(size), val)
       IN  /\ memory' = r.memory
           /\ storage' = r.storage
    /\ yul_op' = "StorageStoreBytes"
    /\ yul_in' = <<offs, size, val>>
    /\ yul_out' = <<>>
    /\ hist' = <<storage>>
    /\ UNCHANGED <<key_in, key_out,
                   layout_vars, mangle_vars, abi_vars, ptr_vars, subst_vars, gen_vars>>

NextStorage ==
    \/ \E offs \in ByteOffsets, size \in LoadSizes : CallStorageLoadBytes(offs, size)
    \/ \E offs \in ByteOffsets, size \in StoreSizes :
          \E val \in SizedValues(size) : CallStorageStoreBytes(offs, size, val)

SpecStorage == InitStorage /\ [][NextStorage]_vars

\* --------------------------------------- properties of the storage helpers

\* Byte a of linear storage: byte a mod 32 of the word stored for a div 32.
LinearByte(sto, a) == WordByte(sload(sto, LinearKey(a \div 32)), a % 32)

\* C11 (as claimed): a StorageLoadBytes of 8, 16 or 32 bytes that crosses a
\* word boundary returns the big-endian value of the bytes offs .. offs+size-1
\* of linear storage: the tail of the lower word followed by the head of the
\* upper word.
C11_LoadAcrossWords ==
    (/\ yul_op = "StorageLoadBytes"
     /\ yul_in[2] \in {8, 16, 32}
     /\ (yul_in[1] % 32) + yul_in[2] > 32)
        => LET offs == yul_in[1]
               size == yul_in[2]
           IN  \A k \in 0..31 :
                   WordByte(yul_out[1], k) =
                       IF k >= 32 - size
                       THEN LinearByte(storage, offs + k - (32 - size))
                       ELSE 0

\* C12 (as claimed): after StorageStoreBytes(offs, size, val) the bytes
\* offs .. offs+size-1 of linear storage hold val, most significant byte
\* first, and the other bytes of the touched words are as before the call.
C12_StoreWritesRange ==
    yul_op = "StorageStoreBytes" =>
        LET offs == yul_in[1]
            size == yul_in[2]
            val == yul_in[3]
        IN  \A a \in 0..(32 * (MaxWordOffs + 1) - 1) :
                (a \div 32) \in {offs \div 32, (offs + size - 1) \div 32} =>
                    LinearByte(storage, a) =
                        IF offs <= a /\ a < offs + size
                        THEN WordByte(val, 32 - size + (a - offs))
                        ELSE LinearByte(hist[1], a)

\* -------------------------------------------------- memory loads and stores

\* The heap follows the reserved prefix; MaxWordOffs + 1 words of it are
\* modelled, holding zeros, 0xff bytes or the bytes 1, 2, 3, ...
HeapEnd == USED_MEM + 32 * (MaxWordOffs + 1)

MemoryImages ==
    { [a \in 0..(HeapEnd - 1) |-> IF a < USED_MEM THEN BootMemory[a] ELSE 0],
      [a \in 0..(HeapEnd - 1) |-> IF a < USED_MEM THEN BootMemory[a] ELSE 255],
      [a \in 0..(HeapEnd - 1) |->
          IF a < USED_MEM THEN BootMemory[a] ELSE (a - USED_MEM + 1) % 256] }

MemOffsets == {USED_MEM + 32 * w + b : w \in 0..(MaxWordOffs - 1), b \in {0, 1, 13, 31}}

InitMemory ==
    /\ memory \in MemoryImages
    /\ storage = <<>>
    /\ yul_op = "none"
    /\ yul_in = <<>>
    /\ yul_out = <<>>
    /\ hist = <<>>
    /\ key_in = <<>>
    /\ key_out = <<>>
    /\ IdleLayout /\ IdleMangle /\ IdleAbi /\ IdlePtr /\ IdleSubst /\ IdleGen

CallMemoryStoreBytes(offs, size, val) ==
    /\ yul_op = "none"
    /\ memory' = MemoryStoreBytes(memory, NatToWord(offs), NatToWord(size), val)
    /\ yul_op' = "MemoryStoreBytes"
    /\ yul_in' = <<offs, size, val>>
    /\ yul_out' = <<>>
    /\ hist' = <<memory>>
    /\ UNCHANGED <<storage, key_in, key_out,
                   layout_vars, mangle_vars, abi_vars, ptr_vars, subst_vars, gen_vars>>

\* The load of the bytes just stored.
CallMemoryLoadBytes ==
    /\ yul_op = "MemoryStoreBytes"
    /\ yul_op' = "MemoryLoadBytes"
    /\ yul_out' = <<MemoryLoadBytes(memory, NatToWord(yul_in[1]), NatToWord(yul_in[2]))>>
    /\ UNCHANGED <<memory, storage, yul_in, hist, key_in, key_out,
                   layout_vars, mangle_vars, abi_vars, ptr_vars, subst_vars, gen_vars>>

NextMemory ==
    \/ \E offs \in MemOffsets, size \in StoreSizes :
          \E val \in SizedValues(size) \cup {BitsWord(0..(WordBits - 1))} :
              CallMemoryStoreBytes(offs, size, val)
    \/ CallMemoryLoadBytes

SpecMemory == InitMemory /\ [][NextMemory]_vars

\* C13 (as claimed): after MemoryStoreBytes(offs, size, val) the bytes
\* offs .. offs+size-1 of memory hold the low size bytes of val, most
\* significant first, every other byte is as before the call, and
\* MemoryLoadBytes(offs, size) returns val mod 2^(8*size).
C13_MemoryStoreFrame ==
    yul_op \in {"MemoryStoreBytes", "MemoryLoadBytes"} =>
        LET offs == yul_in[1]
            size == yul_in[2]
            val == yul_in[3]
        IN  /\ \A a \in DOMAIN memory :
                  memory[a] = IF offs <= a /\ a < offs + size
                              THEN WordByte(val, 32 - size + (a - offs))
                              ELSE hist[1][a]
            /\ yul_op = "MemoryLoadBytes" =>
                  \A k \in 0..31 :
                      WordByte(yul_out[1], k) =
                          IF k >= 32 - size THEN WordByte(val, k) ELSE 0

\* ------------------------------------------------ InjectBytes / ExtractBytes

ByteStarts == {0, 1, 8, 20, 31}

ProbedWords ==
    { NatToWord(0), BitsWord(0..(WordBits - 1)), BytesWord([k \in 0..31 |-> k + 1]) }

InitBytes ==
    /\ yul_op = "none"
    /\ yul_in \in ProbedWords \X ByteStarts
    /\ yul_out = <<>>
    /\ storage = <<>>
    /\ hist = <<>>
    /\ IdleLayout /\ IdleMangle /\ IdleAbi /\ IdlePtr /\ IdleKey /\ IdleSubst /\ IdleGen

\* new_word := InjectBytes(word, start, size, bytes), read back with ExtractBytes.
CallInjectBytes(size, bytes) ==
    /\ yul_op = "none"
    /\ Len(yul_in) = 2
    /\ yul_in[2] + size <= 32
    /\ yul_op' = "InjectBytes"
    /\ yul_in' = <<yul_in[1], yul_in[2], size, bytes>>
    /\ LET new_word == InjectBytes(yul_in[1], NatToWord(yul_in[2]), NatToWord(size), bytes)
       IN  yul_out' = <<new_word,
                        ExtractBytes(new_word, NatToWord(yul_in[2]), NatToWord(size))>>
    /\ UNCHANGED <<storage, hist, key_vars,
                   layout_vars, mangle_vars, abi_vars, ptr_vars, subst_vars, gen_vars>>

NextBytes ==
    \E size \in StoreSizes : \E bytes \in SizedValues(size) : CallInjectBytes(size, bytes)

SpecBytes == InitBytes /\ [][NextBytes]_vars

\* C14 (as claimed): ExtractBytes(InjectBytes(word, start, size, bytes), start,
\* size) = bytes, and the bytes of the new word outside start .. start+size-1
\* are those of word.
C14_InjectExtract ==
    yul_op = "InjectBytes" =>
        LET word == yul_in[1]
            start == yul_in[2]
            size == yul_in[3]
            bytes == yul_in[4]
        IN  /\ yul_out[2] = bytes
            /\ \A k \in 0..31 :
                  (k < start \/ k >= start + size) =>
                      WordByte(yul_out[1], k) = WordByte(word, k)

\* ------------------------------------------------------------- allocator

\* Malloc(size): the memory after the call and the offset returned.
Malloc(mem, size) ==
    LET offs == mload(mem, MEM_SIZE_LOC)
    IN  [memory |->
            mstore(mem, MEM_SIZE_LOC,
                   evm_add(offs, evm_shl(NatToWord(5),
                                         evm_shr(NatToWord(5),
                                                 evm_add(size, NatToWord(31)))))),
         offs |-> offs]

\* Free(offs, size): the memory after the call.
Free(mem, offs, size) == mem

\* Sizes asked of Malloc: small ones around the word size, and the largest word.
AllocSizes ==
    {NatToWord(0), NatToWord(1), NatToWord(32), NatToWord(33),
     BitsWord(0..(WordBits - 1))}

InitAlloc ==
    /\ memory = BootMemory
    /\ storage = <<>>
    /\ yul_op = "none"
    /\ yul_in = <<>>
    /\ yul_out = <<>>
    /\ hist = <<>>
    /\ key_in = <<>>
    /\ key_out = <<>>
    /\ IdleLayout /\ IdleMangle /\ IdleAbi /\ IdlePtr /\ IdleSubst /\ IdleGen

\* offs := Malloc(size); hist keeps the blocks <<offs, size>> handed out.
CallMalloc(size) ==
    /\ Len(hist) < MaxAllocs
    /\ LET r == Malloc(memory, size)
       IN  /\ memory' = r.memory
           /\ yul_out' = <<r.offs>>
           /\ hist' = Append(hist, <<r.offs, size>>)
    /\ yul_op' = "Malloc"
    /\ yul_in' = <<size>>
    /\ UNCHANGED <<storage, key_in, key_out,
                   layout_vars, mangle_vars, abi_vars, ptr_vars, subst_vars, gen_vars>>

\* Free of a block handed out earlier.
CallFree(i) ==
    /\ i \in 1..Len(hist)
    /\ yul_op # "Free"
    /\ memory' = Free(memory, hist[i][1], hist[i][2])
    /\ yul_op' = "Free"
    /\ yul_in' = hist[i]
    /\ yul_out' = <<>>
    /\ UNCHANGED <<storage, hist, key_in, key_out,
                   layout_vars, mangle_vars, abi_vars, ptr_vars, subst_vars, gen_vars>>

NextAlloc ==
    \/ \E size \in AllocSizes : CallMalloc(size)
    \/ \E i \in 1..MaxAllocs : CallFree(i)

SpecAlloc == InitAlloc /\ [][NextAlloc]_vars

\* ------------------------------------------------ properties of the allocator

\* x <= y as unsigned numbers.
word_le(x, y) == ~word_lt(y, x)

\* The high-water mark after the blocks of hist: the mark a call leaves.
MarkAfter(i) == IF i = Len(hist) THEN mload(memory, MEM_SIZE_LOC) ELSE hist[i + 1][1]

\* The mark moved from m to m2 by size rounded up to a multiple of 32:
\* m2 - m is a multiple of 32 with size <= m2 - m < size + 32, no wrap.
AdvancedBy(m, m2, size) ==
    LET d == evm_sub(m2, m)
    IN  /\ word_le(m, m2)
        /\ word_le(size, d)
        /\ word_lt(evm_sub(d, size), NatToWord(32))
        /\ \A b \in 0..4 : d[b] = 0

\* The blocks [offs, offs + size) of calls i < j do not meet.
Disjoint(i, j) ==
    \/ hist[i][2] = NatToWord(0)
    \/ hist[j][2] = NatToWord(0)
    \/ /\ word_le(hist[i][1], hist[j][1])
       /\ word_le(hist[i][2], evm_sub(hist[j][1], hist[i][1]))

AllocatorContract ==
    /\ \A i \in 1..Len(hist) :
          /\ hist[i][1] = (IF i = 1 THEN NatToWord(USED_MEM) ELSE MarkAfter(i - 1))
          /\ AdvancedBy(hist[i][1], MarkAfter(i), hist[i][2])
          /\ word_le(NatToWord(USED_MEM), hist[i][1])
    /\ LET mark == mload(memory, MEM_SIZE_LOC)
       IN  /\ \A b \in 0..4 : mark[b] = 0
           /\ word_le(NatToWord(USED_MEM), mark)
    /\ \A i \in 1..Len(hist) : \A j \in (i + 1)..Len(hist) : Disjoint(i, j)

\* C15 (as claimed): from a mark of 160, after any Malloc and Free calls, each
\* Malloc returned the mark before it and advanced it by its size rounded up
\* to a multiple of 32; the mark is a multiple of 32, never decreases and is
\* at least 160; Free changes nothing; the blocks handed out are pairwise
\* disjoint and start at or after 160.
C15_BumpAllocator == AllocatorContract

\* The same for the sizes that keep the running total below 2^256.
BumpAllocatorSmallSizes ==
    (\A i \in 1..Len(hist) : IsSmallWord(hist[i][2])) => AllocatorContract

\* ------------------------------------------------------ linked storage bases

\* MakeTypeStorageBase with the id field one nibble too high.
MakeTypeStorageBase_shl64(category, type_hash, id) ==
    evm_or(evm_shl(NatToWord(252), category),
           evm_or(evm_shl(NatToWord(220), type_hash), evm_shl(NatToWord(64), id)))

MakeTypeStorageBase(category, type_hash, id) ==
    evm_or(evm_shl(NatToWord(252), category),
           evm_or(evm_shl(NatToWord(220), type_hash), evm_shl(NatToWord(60), id)))

\* NewLinkedStorageBase(type_hash): the memory after the call and the base.
NewLinkedStorageBase(mem, type_hash) ==
    LET handle == mload(mem, LINKED_STORAGE_COUNTER_LOC)
    IN  [memory |-> mstore(mem, LINKED_STORAGE_COUNTER_LOC,
                           evm_add(handle, NatToWord(1))),
         offs |-> MakeTypeStorageBase(NatToWord(LINKED_STORAGE_CATEGORY), type_hash,
                                      handle)]

\* Type hashes are 4 bytes long.
TypeHashes == {NatToWord(0), NatToWord(1), NatToWord(305419896), BitsWord(0..31)}

\* The handle counter of a fresh contract, and of one that has handed out
\* all but two of the 2^160 handles.
HandleCounters == {NatToWord(0), BitsWord(1..159)}

InitLinked ==
    /\ memory \in {mstore(BootMemory, LINKED_STORAGE_COUNTER_LOC, c) : c \in HandleCounters}
    /\ storage = <<>>
    /\ yul_op = "none"
    /\ yul_in = <<>>
    /\ yul_out = <<>>
    /\ hist = <<>>
    /\ key_in = <<>>
    /\ key_out = <<>>
    /\ IdleLayout /\ IdleMangle /\ IdleAbi /\ IdlePtr /\ IdleSubst /\ IdleGen

\* offs := NewLinkedStorageBase(type_hash); hist keeps, for each call, the
\* type hash, the counter before the call, the base and the counter after it.
CallNewLinkedStorageBase(type_hash) ==
    /\ Len(hist) < MaxCalls
    /\ LET r == NewLinkedStorageBase(memory, type_hash)
       IN  /\ memory' = r.memory
           /\ yul_out' = <<r.offs>>
           /\ hist' = Append(hist, <<type_hash, mload(memory, LINKED_STORAGE_COUNTER_LOC),
                                     r.offs, mload(r.memory, LINKED_STORAGE_COUNTER_LOC)>>)
    /\ yul_op' = "NewLinkedStorageBase"
    /\ yul_in' = <<type_hash>>
    /\ UNCHANGED <<storage, key_in, key_out,
                   layout_vars, mangle_vars, abi_vars, ptr_vars, subst_vars, gen_vars>>

NextLinked == \E type_hash \in TypeHashes : CallNewLinkedStorageBase(type_hash)

SpecLinked == InitLinked /\ [][NextLinked]_vars

\* w < 2^n
BelowPow2(w, n) == \A b \in n..(WordBits - 1) : w[b] = 0

\* C16: a NewLinkedStorageBase(type_hash) call with type_hash < 2^32 and the
\* counter h < 2^160 returns (1 << 252) | (type_hash << 220) | (h << 60), with
\* bits 252..254 = 0b001 and the low 60 bits zero, and adds 1 to the counter;
\* two such calls never return the same base.
C16_LinkedBasesUnique ==
    LET Pre(i) == BelowPow2(hist[i][1], 32) /\ BelowPow2(hist[i][2], 160)
    IN  /\ \A i \in 1..Len(hist) :
              Pre(i) =>
                  /\ hist[i][3] =
                        [b \in 0..(WordBits - 1) |->
                            IF b = 252 THEN 1
                            ELSE IF b >= 220 /\ b < 252 THEN hist[i][1][b - 220]
                            ELSE IF b >= 60 /\ b < 220 THEN hist[i][2][b - 60]
                            ELSE 0]
                  /\ hist[i][3][252] = 1 /\ hist[i][3][253] = 0 /\ hist[i][3][254] = 0
                  /\ \A b \in 0..59 : hist[i][3][b] = 0
                  /\ hist[i][4] = PlusWord(hist[i][2], NatToWord(1))
        /\ \A i \in 1..Len(hist) : \A j \in (i + 1)..Len(hist) :
              (Pre(i) /\ Pre(j)) => hist[i][3] # hist[j][3]

\* Two calls with the same type hash 2^32 - 1, the second with the last
\* handle 2^160 - 1.
C16_Witness ==
    /\ Len(hist) >= 2
    /\ hist[Len(hist)][1] = BitsWord(0..31)
    /\ hist[Len(hist) - 1][1] = BitsWord(0..31)
    /\ hist[Len(hist)][2] = BitsWord(0..159)
    /\ hist[Len(hist)][3] # hist[Len(hist) - 1][3]

\* ------------------------------------------------- placeholder substitution
\* Texts are sequences of one-character strings.

\* The placeholder table: name -> replacement.
PLACEHOLDERS ==
    (<<"M", "A", "X", "_", "U", "8">>
        :> <<"0", "x", "f", "f">>) @@
    (<<"M", "A", "X", "_", "U", "6", "4">>
        :> <<"0", "x", "f", "f", "f", "f", "f", "f", "f", "f", "f", "f", "f", "f",
             "f", "f", "f", "f">>) @@
    (<<"M", "A", "X", "_", "U", "1", "2", "8">>
        :> <<"0", "x", "f", "f", "f", "f", "f", "f", "f", "f", "f", "f", "f", "f",
             "f", "f", "f", "f", "f", "f", "f", "f", "f", "f", "f", "f", "f", "f",
             "f", "f", "f", "f", "f", "f">>) @@
    (<<"M", "A", "X", "_", "U", "2", "5", "6">>
        :> <<"0", "x", "f", "f", "f", "f", "f", "f", "f", "f", "f", "f", "f", "f",
             "f", "f", "f", "f", "f", "f", "f", "f", "f", "f", "f", "f", "f", "f",
             "f", "f", "f", "f", "f", "f", "f", "f", "f", "f", "f", "f", "f", "f",
             "f", "f", "f", "f", "f", "f", "f", "f", "f", "f", "f", "f", "f", "f",
             "f", "f", "f", "f", "f", "f", "f", "f", "f", "f">>) @@
    (<<"A", "D", "D", "R", "E", "S", "S", "_", "U", "1", "6", "0">>
        :> <<"0", "x", "f", "f", "f", "f", "f", "f", "f", "f", "f", "f", "f", "f",
             "f", "f", "f", "f", "f", "f", "f", "f", "f", "f", "f", "f", "f", "f",
             "f", "f", "f", "f", "f", "f", "f", "f", "f", "f", "f", "f", "f", "f">>) @@
    (<<"U", "S", "E", "D", "_", "M", "E", "M">>
        :> <<"1", "6", "0">>) @@
    (<<"M", "E", "M", "_", "S", "I", "Z", "E", "_", "L", "O", "C">>
        :> <<"0">>) @@
    (<<"S", "C", "R", "A", "T", "C", "H", "1", "_", "L", "O", "C">>
        :> <<"3", "2">>) @@
    (<<"S", "C", "R", "A", "T", "C", "H", "2", "_", "L", "O", "C">>
        :> <<"6", "4">>) @@
    (<<"L", "I", "N", "E", "A", "R", "_", "S", "T", "O", "R", "A", "G", "E",
          "_", "G", "R", "O", "U", "P">>
        :> <<"0">>) @@
    (<<"S", "T", "O", "R", "A", "G", "E", "_", "G", "R", "O", "U", "P", "_",
          "C", "O", "U", "N", "T", "E", "R", "_", "L", "O", "C">>
        :> <<"9", "6">>) @@
    (<<"W", "O", "R", "D", "_", "A", "N", "D", "_", "S", "T", "O", "R", "A",
          "G", "E", "_", "G", "R", "O", "U", "P", "_", "L", "E", "N", "G", "T",
          "H">>
        :> <<"3", "6">>) @@
    (<<"R", "E", "S", "O", "U", "R", "C", "E", "_", "S", "T", "O", "R", "A",
          "G", "E", "_", "C", "A", "T", "E", "G", "O", "R", "Y">>
        :> <<"0">>) @@
    (<<"L", "I", "N", "K", "E", "D", "_", "S", "T", "O", "R", "A", "G", "E",
          "_", "C", "A", "T", "E", "G", "O", "R", "Y">>
        :> <<"1">>) @@
    (<<"L", "I", "N", "K", "E", "D", "_", "S", "T", "O", "R", "A", "G", "E",
          "_", "C", "O", "U", "N", "T", "E", "R", "_", "L", "O", "C">>
        :> <<"1", "2", "8">>) @@
    (<<"R", "E", "S", "O", "U", "R", "C", "E", "_", "E", "X", "I", "S", "T",
          "S", "_", "F", "L", "A", "G", "_", "S", "I", "Z", "E">>
        :> <<"3", "2">>)

\* The character class [A-Z0-9_] of the placeholder pattern.
NameChars ==
    {"A", "B", "C", "D", "E", "F", "G", "H", "I", "J", "K", "L", "M", "N", "O", "P",
     "Q", "R", "S", "T", "U", "V", "W", "X", "Y", "Z", "0", "1", "2", "3", "4", "5",
     "6", "7", "8", "9", "_"}

\* s has a match of \$\{[A-Z0-9_]+\} from position i to position j.
is_match(s, i, j) ==
    /\ j >= i + 3 /\ j <= Len(s)
    /\ s[i] = "$" /\ s[i + 1] = "{" /\ s[j] = "}"
    /\ \A k \in (i + 2)..(j - 1) : s[k] \in NameChars

Matches(s, at) ==
    {m \in (at..Len(s)) \X (at..Len(s)) : is_match(s, m[1], m[2])}

\* The search taking the last match instead of the first.
captures_rightmost(s, at) ==
    IF Matches(s, at) = {} THEN <<>>
    ELSE CHOOSE m \in Matches(s, at) : \A n \in Matches(s, at) : n[1] <= m[1]

\* REX.captures(&s[at..]): the leftmost match at or after position at, as
\* <<start, end>>, or <<>> when there is none.
captures(s, at) ==
    IF Matches(s, at) = {} THEN <<>>
    ELSE CHOOSE m \in Matches(s, at) : \A n \in Matches(s, at) : m[1] <= n[1]

None == <<"None">>
Some(x) == <<"Some", x>>

RECURSIVE subst_loop(_, _, _, _)
subst_loop(s, at, changes, res) ==
    LET cap == captures(s, at)
    IN  IF cap = <<>>
        THEN IF changes THEN Some(res \o SubSeq(s, at, Len(s))) ELSE None
        ELSE LET m == SubSeq(s, cap[1], cap[2])
                 v == SubSeq(s, cap[1] + 2, cap[2] - 1)
                 res1 == res \o SubSeq(s, at, cap[1] - 1)
             IN  IF v \in DOMAIN PLACEHOLDERS
                 THEN subst_loop(s, cap[2] + 1, TRUE, res1 \o PLACEHOLDERS[v])
                 ELSE subst_loop(s, cap[2] + 1, changes, res1 \o m)

substitute_placeholders(s) == subst_loop(s, 1, FALSE, <<>>)

\* ------------------------------------- inputs of substitute_placeholders

\* Pieces of emitted text: two known tokens, the head of a token, a closing
\* brace, an unknown token, an opening "${" and plain text.
Pieces ==
    { <<"$", "{", "U", "S", "E", "D", "_", "M", "E", "M", "}">>,
      <<"$", "{", "M", "A", "X", "_", "U", "8", "}">>,
      <<"$", "{", "A", "D", "D", "R", "E", "S", "S", "_", "U">>,
      <<"}">>,
      <<"$", "{", "F", "O", "O", "}">>,
      <<"$", "{">>,
      <<"x", " ">> }

RECURSIVE Texts(_)
Texts(n) ==
    IF n = 0 THEN {<<>>}
    ELSE Texts(n - 1) \cup {t \o p : t \in Texts(n - 1), p \in Pieces}

InitSubst ==
    /\ sp_in \in Texts(MaxPieces)
    /\ sp_out = [done |-> FALSE, first |-> <<>>, second |-> <<>>]
    /\ IdleLayout /\ IdleMangle /\ IdleAbi /\ IdlePtr /\ IdleKey /\ IdleYul /\ IdleGen

\* substitute_placeholders(sp_in), and a second pass over a rewritten text.
SubstitutePlaceholders ==
    /\ ~sp_out.done
    /\ LET first == substitute_placeholders(sp_in)
       IN  sp_out' = [done |-> TRUE,
                      first |-> first,
                      second |-> IF first = None THEN None
                                 ELSE substitute_placeholders(first[2])]
    /\ UNCHANGED <<sp_in, layout_vars, mangle_vars, abi_vars, ptr_vars, key_vars,
                   yul_vars, gen_vars>>

NextSubst == SubstitutePlaceholders

SpecSubst == InitSubst /\ [][NextSubst]_vars

\* -------------------------------- properties of substitute_placeholders

\* t contains ${NAME} for a NAME of the table.
ContainsKnown(t) ==
    \E i \in 1..Len(t) : \E j \in i..Len(t) :
        /\ is_match(t, i, j)
        /\ SubSeq(t, i + 2, j - 1) \in DOMAIN PLACEHOLDERS

HasToken(t) == \E i \in 1..Len(t) : \E j \in i..Len(t) : is_match(t, i, j)

\* Every "${" of t opens a token ${NAME}.
NoOpenToken(t) ==
    \A i \in 1..(Len(t) - 1) :
        (t[i] = "$" /\ t[i + 1] = "{") => \E j \in i..Len(t) : is_match(t, i, j)

SubstContract ==
    /\ sp_out.first # None =>
          /\ ~ContainsKnown(sp_out.first[2])
          /\ sp_out.second = None
    /\ ~HasToken(sp_in) => sp_out.first = None

\* C17 (as claimed): for every input, a rewritten text contains no ${NAME}
\* with NAME in the table, so a second pass returns None; an input with no
\* token returns None.
C17_SubstituteIdempotent == sp_out.done => SubstContract

\* C17 (amended): the same for the inputs in which every "${" opens a token
\* ${NAME}, so that no replacement can complete a token around it.
C17_SubstituteIdempotentFlat == (sp_out.done /\ NoOpenToken(sp_in)) => SubstContract

\* A text with a known and an unknown token: rewritten, with the unknown
\* token kept.
C17_Witness ==
    /\ sp_out.done
    /\ NoOpenToken(sp_in)
    /\ ContainsKnown(sp_in)
    /\ sp_out.first # None
    /\ HasToken(sp_out.first[2])
    /\ sp_out.second = None

\* ---------------------------------------------------------- mul and div
\* Multiplication and division work on the bytes of a word, least
\* significant first: a number is a function from 0 .. n-1 to 0 .. 255.

to_limbs(w) == [k \in 0..31 |-> WordByte(w, 31 - k)]

from_limbs(v) == BytesWord([k \in 0..31 |-> v[31 - k]])

RECURSIVE sum_range(_, _, _)
sum_range(f, lo, hi) ==
    IF lo > hi THEN 0
    ELSE IF lo = hi THEN f[lo]
    ELSE LET mid == (lo + hi) \div 2
         IN  sum_range(f, lo, mid) + sum_range(f, mid + 1, hi)

\* Column k of the schoolbook product of a and b (32 bytes each): the sum
\* of a[i] * b[k - i].
mul_cols(a, b, n) ==
    CASE Computed(a) /\ Computed(b) ->
        [k \in 0..(n - 1) |->
            LET lo == IF k > 31 THEN k - 31 ELSE 0
                hi == IF k > 31 THEN 31 ELSE k
            IN  sum_range([i \in lo..hi |-> a[i] * b[k - i]], lo, hi)]

\* One round of carrying: every column keeps its low byte and takes the
\* overflow of the column below.
carry_round(v, n) ==
    CASE Computed(v) ->
        [k \in 0..(n - 1) |->
            (v[k] % 256) + (IF k = 0 THEN 0 ELSE v[k - 1] \div 256)]

\* The n low bytes of the number with columns v (each below 2^21): after
\* three rounds every column is at most 256, and a carry enters column k
\* when a lower column j holds 256 and the columns between hold 255 or 256.
normalize(v, n) ==
    LET u == carry_round(carry_round(carry_round(v, n), n), n)
    IN  CASE Computed(u) ->
            [k \in 0..(n - 1) |->
                LET carry == \E j \in 0..(k - 1) :
                                /\ u[j] = 256
                                /\ \A m \in (j + 1)..(k - 1) : u[m] >= 255
                IN  (u[k] + (IF carry THEN 1 ELSE 0)) % 256]

\* mul(x, y): x * y mod 2^256.
evm_mul(x, y) == from_limbs(normalize(mul_cols(to_limbs(x), to_limbs(y), 32), 32))

\* a <= b for numbers of n bytes.
limbs_le(a, b, n) ==
    ~\E i \in 0..(n - 1) :
        a[i] > b[i] /\ \A j \in (i + 1)..(n - 1) : a[j] = b[j]

\* a - b for numbers of n bytes with b <= a: a borrow enters byte k when a
\* lower byte j has a[j] < b[j] and the bytes between have a[m] <= b[m].
limbs_sub(a, b, n) ==
    CASE Computed(a) /\ Computed(b) ->
        [k \in 0..(n - 1) |->
            LET borrow == \E j \in 0..(k - 1) :
                              /\ a[j] < b[j]
                              /\ \A m \in (j + 1)..(k - 1) : a[m] <= b[m]
            IN  (a[k] - b[k] - (IF borrow THEN 1 ELSE 0) + 512) % 256]

\* b * d for a number b of 32 bytes and a digit d, as a number of 33 bytes.
mul_digit(b, d) ==
    normalize([k \in 0..32 |-> IF k < 32 THEN b[k] * d ELSE 0], 33)

\* The largest digit d with b * d <= t, found bit by bit from the top.
RECURSIVE div_digit(_, _, _, _)
div_digit(t, b, d, bit) ==
    IF bit = 0 THEN d
    ELSE IF limbs_le(mul_digit(b, d + bit), t, 33)
         THEN div_digit(t, b, d + bit, bit \div 2)
         ELSE div_digit(t, b, d, bit \div 2)

\* Long division of a by b # 0, from byte k down: r is the remainder of the
\* bytes above k, q the quotient bytes found so far.
RECURSIVE div_loop(_, _, _, _, _)
div_loop(a, b, k, r, q) ==
    IF k < 0 THEN q
    ELSE LET t == [i \in 0..32 |-> IF i = 0 THEN a[k] ELSE r[i - 1]]
             d == div_digit(t, b, 0, 128)
             r1 == limbs_sub(t, mul_digit(b, d), 33)
             q1 == [i \in 0..31 |-> IF i = k THEN d ELSE q[i]]
         IN  CASE Computed(r1) /\ Computed(q1) -> div_loop(a, b, k - 1, r1, q1)

\* div(x, y): the quotient of x by y, zero for y = 0.
evm_div(x, y) ==
    IF y = BitsWord({}) THEN BitsWord({})
    ELSE from_limbs(div_loop(to_limbs(x), to_limbs(y), 31,
                             [i \in 0..31 |-> 0], [i \in 0..31 |-> 0]))

\* ------------------------------------------------------ checked arithmetic

MAX_U8 == BitsWord(0..7)
MAX_U64 == BitsWord(0..63)
MAX_U128 == BitsWord(0..127)
MAX_U256 == BitsWord(0..255)

\* A call either returns, [r |-> value], or reverts, [revert |-> data,
\* memory |-> the memory at the revert].
\* Abort(code): mstore(0, code) and revert(24, 8), the 8 bytes of memory
\* from address 24.  The memory outside word 0 plays no part.
Abort(code) ==
    LET mem == mstore(BootMemory, 0, code)
    IN  [revert |-> [k \in 0..7 |-> mem[24 + k]], memory |-> mem]

AbortBuiltin == Abort(evm_sub(NatToWord(0), NatToWord(1)))

\* AddU8 without the overflow test.
AddU8_wrapping(x, y) == [r |-> evm_add(x, y)]

\* ShlU8 without the mask.
ShlU8_unmasked(x, y) == [r |-> evm_shl(y, x)]

AddU64(x, y) ==
    IF yul_true(evm_lt(evm_sub(MAX_U64, x), y)) THEN AbortBuiltin
    ELSE [r |-> evm_add(x, y)]

MulU64(x, y) ==
    IF yul_true(evm_gt(y, evm_div(MAX_U64, x))) THEN AbortBuiltin
    ELSE [r |-> evm_mul(x, y)]

AddU8(x, y) ==
    IF yul_true(evm_lt(evm_sub(MAX_U8, x), y)) THEN AbortBuiltin
    ELSE [r |-> evm_add(x, y)]

MulU8(x, y) ==
    IF yul_true(evm_gt(y, evm_div(MAX_U8, x))) THEN AbortBuiltin
    ELSE [r |-> evm_mul(x, y)]

AddU128(x, y) ==
    IF yul_true(evm_lt(evm_sub(MAX_U128, x), y)) THEN AbortBuiltin
    ELSE [r |-> evm_add(x, y)]

MulU128(x, y) ==
    IF yul_true(evm_gt(y, evm_div(MAX_U128, x))) THEN AbortBuiltin
    ELSE [r |-> evm_mul(x, y)]

AddU256(x, y) ==
    IF yul_true(evm_lt(evm_sub(MAX_U256, x), y)) THEN AbortBuiltin
    ELSE [r |-> evm_add(x, y)]

MulU256(x, y) ==
    IF yul_true(evm_gt(y, evm_div(MAX_U256, x))) THEN AbortBuiltin
    ELSE [r |-> evm_mul(x, y)]

ShlU8(x, y) == [r |-> evm_and(evm_shl(y, x), MAX_U8)]

ShlU64(x, y) == [r |-> evm_and(evm_shl(y, x), MAX_U64)]

ShlU128(x, y) == [r |-> evm_and(evm_shl(y, x), MAX_U128)]

ShlU256(x, y) == [r |-> evm_and(evm_shl(y, x), MAX_U256)]

MAX_U(n) ==
    CASE n = 8 -> MAX_U8 [] n = 64 -> MAX_U64 [] n = 128 -> MAX_U128 [] n = 256 -> MAX_U256

AddU(n, x, y) ==
    CASE n = 8 -> AddU8(x, y) [] n = 64 -> AddU64(x, y)
      [] n = 128 -> AddU128(x, y) [] n = 256 -> AddU256(x, y)

MulU(n, x, y) ==
    CASE n = 8 -> MulU8(x, y) [] n = 64 -> MulU64(x, y)
      [] n = 128 -> MulU128(x, y) [] n = 256 -> MulU256(x, y)

ShlU(n, x, y) ==
    CASE n = 8 -> ShlU8(x, y) [] n = 64 -> ShlU64(x, y)
      [] n = 128 -> ShlU128(x, y) [] n = 256 -> ShlU256(x, y)

\* -------------------------------------------- inputs of the arithmetic

Widths == {8, 64, 128, 256}

\* Values of n bits: 0 .. MaxSmall, the values around 2^(n/2), 2^(n-1) and
\* the maximum.
ArithProbes(n) ==
    {NatToWord(k) : k \in 0..MaxSmall}
        \cup {BitsWord({n \div 2}), BitsWord(0..((n \div 2) - 1)), BitsWord({0, n \div 2}),
              BitsWord({n - 1}), BitsWord(0..(n - 2)), BitsWord(0..(n - 1))}

\* Shift amounts around the width and the word size.
ShiftAmounts(n) == {NatToWord(n - 1), NatToWord(n), NatToWord(255), NatToWord(256)}

InitArith ==
    /\ yul_op = "none"
    /\ \E n \in Widths :
          yul_in \in {n} \X ArithProbes(n) \X (ArithProbes(n) \cup ShiftAmounts(n))
    /\ yul_out = <<>>
    /\ storage = <<>>
    /\ hist = <<>>
    /\ IdleLayout /\ IdleMangle /\ IdleAbi /\ IdlePtr /\ IdleKey /\ IdleSubst /\ IdleGen

CallAddU ==
    /\ yul_op = "none"
    /\ ~word_lt(MAX_U(yul_in[1]), yul_in[3])
    /\ yul_op' = "AddU"
    /\ yul_out' = AddU(yul_in[1], yul_in[2], yul_in[3])
    /\ UNCHANGED <<yul_in, storage, hist, key_vars,
                   layout_vars, mangle_vars, abi_vars, ptr_vars, subst_vars, gen_vars>>

CallMulU ==
    /\ yul_op = "none"
    /\ ~word_lt(MAX_U(yul_in[1]), yul_in[3])
    /\ yul_op' = "MulU"
    /\ yul_out' = MulU(yul_in[1], yul_in[2], yul_in[3])
    /\ UNCHANGED <<yul_in, storage, hist, key_vars,
                   layout_vars, mangle_vars, abi_vars, ptr_vars, subst_vars, gen_vars>>

CallShlU ==
    /\ yul_op = "none"
    /\ yul_op' = "ShlU"
    /\ yul_out' = ShlU(yul_in[1], yul_in[2], yul_in[3])
    /\ UNCHANGED <<yul_in, storage, hist, key_vars,
                   layout_vars, mangle_vars, abi_vars, ptr_vars, subst_vars, gen_vars>>

NextArith == CallAddU \/ CallMulU \/ CallShlU

SpecArith == InitArith /\ [][NextArith]_vars

\* ------------------------------------------- properties of the arithmetic

Aborted(res) == "revert" \in DOMAIN res

\* C18: for x, y <= MAX_U{n}, AddU{n}(x, y) aborts exactly when x + y exceeds
\* MAX_U{n} and returns x + y otherwise; AddU8(0xff, 1) aborts and
\* AddU8(0xff, 0) returns 0xff.
C18_AddChecked ==
    yul_op = "AddU" =>
        LET n == yul_in[1]
            x == yul_in[2]
            y == yul_in[3]
            sum == PlusWord(x, y)
            \* the sum passes MAX_U{n}, or 2^256 and wraps below x
            over == word_lt(MAX_U(n), sum) \/ word_lt(sum, x)
        IN  /\ Aborted(yul_out) <=> over
            /\ ~over => yul_out = [r |-> sum]
            /\ (n = 8 /\ x = NatToWord(255) /\ y = NatToWord(1)) => Aborted(yul_out)
            /\ (n = 8 /\ x = NatToWord(255) /\ y = NatToWord(0)) =>
                    yul_out = [r |-> NatToWord(255)]

\* AddU256 of two values whose sum is exactly MAX_U256, and AddU8(0xff, 1).
C18_Witness ==
    /\ yul_op = "AddU"
    /\ \/ /\ yul_in = <<256, BitsWord({255}), BitsWord(0..254)>>
          /\ yul_out = [r |-> MAX_U256]
       \/ /\ yul_in = <<8, NatToWord(255), NatToWord(1)>>
          /\ Aborted(yul_out)

\* The product x * y as a number of 64 bytes.
Product(x, y) == normalize(mul_cols(to_limbs(x), to_limbs(y), 64), 64)

MulContract ==
    LET n == yul_in[1]
        prod == Product(yul_in[2], yul_in[3])
        over == \E k \in (n \div 8)..63 : prod[k] # 0
    IN  /\ Aborted(yul_out) <=> over
        /\ ~over => yul_out = [r |-> from_limbs(prod)]

\* C19 (as claimed): for x, y <= MAX_U{n}, MulU{n}(x, y) aborts exactly when
\* x * y exceeds MAX_U{n} and returns x * y otherwise.
C19_MulChecked == yul_op = "MulU" => MulContract

\* The same for x # 0.
MulCheckedNonZero == (yul_op = "MulU" /\ yul_in[2] # NatToWord(0)) => MulContract

\* x * 2^y exceeds MAX_U{n}: x # 0 and y >= 256, or a set bit of x is
\* shifted to position n or above.
ShiftOverflows(n, x, y) ==
    IF IsSmallWord(y) /\ WordToNat(y) < WordBits
    THEN \E b \in 0..(WordBits - 1) : x[b] = 1 /\ b + WordToNat(y) >= n
    ELSE x # NatToWord(0)

\* (x * 2^y) mod 2^n
ShiftedMod(n, x, y) ==
    IF IsSmallWord(y) /\ WordToNat(y) < WordBits
    THEN [i \in 0..(WordBits - 1) |->
            IF i < n /\ i >= WordToNat(y) THEN x[i - WordToNat(y)] ELSE 0]
    ELSE NatToWord(0)

\* C20 (as claimed): for x <= MAX_U{n}, ShlU{n}(x, y) aborts when x * 2^y
\* exceeds MAX_U{n} and returns x * 2^y otherwise.
C20_ShlAbortsOnOverflow ==
    yul_op = "ShlU" =>
        LET n == yul_in[1]
            x == yul_in[2]
            y == yul_in[3]
        IN  IF ShiftOverflows(n, x, y)
            THEN Aborted(yul_out)
            ELSE yul_out = [r |-> ShiftedMod(n, x, y)]

\* C20 (amended): for x <= MAX_U{n}, ShlU{n}(x, y) never aborts and returns
\* (x * 2^y) mod 2^n: x * 2^y when that is at most MAX_U{n}, its low n bits
\* otherwise.
C20_ShlTruncates ==
    yul_op = "ShlU" =>
        yul_out = [r |-> ShiftedMod(yul_in[1], yul_in[2], yul_in[3])]

\* ShlU8(0xff, 1) = 0xfe: the shifted value 0x1fe exceeds MAX_U8.
C20_Witness ==
    /\ yul_op = "ShlU"
    /\ yul_in = <<8, NatToWord(255), NatToWord(1)>>
    /\ ShiftOverflows(8, yul_in[2], yul_in[3])
    /\ yul_out = [r |-> NatToWord(254)]

\* ------------------------------------------------- Sub, Div, Mod and casts

\* mod(x, y): the remainder of x by y, zero for y = 0.
evm_mod(x, y) ==
    IF y = BitsWord({}) THEN BitsWord({})
    ELSE evm_sub(x, evm_mul(evm_div(x, y), y))

\* Sub without the underflow test.
Sub_wrapping(x, y) == [r |-> evm_sub(x, y)]

Sub(x, y) ==
    IF yul_true(evm_lt(x, y)) THEN AbortBuiltin
    ELSE [r |-> evm_sub(x, y)]

Div(x, y) ==
    IF yul_true(evm_eq(y, NatToWord(0))) THEN AbortBuiltin
    ELSE [r |-> evm_div(x, y)]

Mod(x, y) ==
    IF yul_true(evm_eq(y, NatToWord(0))) THEN AbortBuiltin
    ELSE [r |-> evm_mod(x, y)]

CastU8(x) ==
    IF yul_true(evm_gt(x, MAX_U8)) THEN AbortBuiltin
    ELSE [r |-> x]

CastU64(x) ==
    IF yul_true(evm_gt(x, MAX_U64)) THEN AbortBuiltin
    ELSE [r |-> x]

CastU128(x) ==
    IF yul_true(evm_gt(x, MAX_U128)) THEN AbortBuiltin
    ELSE [r |-> x]

CastU256(hi, lo) ==
    IF yul_true(evm_gt(hi, MAX_U128)) THEN AbortBuiltin
    ELSE IF yul_true(evm_gt(lo, MAX_U128)) THEN AbortBuiltin
    ELSE [r |-> evm_add(evm_shl(NatToWord(128), hi), lo)]

CastU(n, x) ==
    CASE n = 8 -> CastU8(x) [] n = 64 -> CastU64(x) [] n = 128 -> CastU128(x)

\* ------------------------------------------ inputs of Sub, Div, Mod, casts

CastWidths == {8, 64, 128}

\* Words: 0 .. MaxSmall, for each width the maximum and the value above
\* it, a value with bits on both sides of every maximum, the largest word.
CheckedProbes ==
    {NatToWord(k) : k \in 0..MaxSmall}
        \cup UNION {{BitsWord(0..(n - 1)), BitsWord({n})} : n \in CastWidths}
        \cup {BitsWord({5, 9, 62, 66, 126, 130}), BitsWord(0..(WordBits - 1))}

InitChecked ==
    /\ yul_op = "none"
    /\ yul_in \in CheckedProbes \X CheckedProbes
    /\ yul_out = <<>>
    /\ storage = <<>>
    /\ hist = <<>>
    /\ IdleLayout /\ IdleMangle /\ IdleAbi /\ IdlePtr /\ IdleKey /\ IdleSubst /\ IdleGen

CallSub ==
    /\ yul_op = "none"
    /\ yul_op' = "Sub"
    /\ yul_out' = Sub(yul_in[1], yul_in[2])
    /\ UNCHANGED <<yul_in, storage, hist, key_vars,
                   layout_vars, mangle_vars, abi_vars, ptr_vars, subst_vars, gen_vars>>

CallDiv ==
    /\ yul_op = "none"
    /\ yul_op' = "Div"
    /\ yul_out' = Div(yul_in[1], yul_in[2])
    /\ UNCHANGED <<yul_in, storage, hist, key_vars,
                   layout_vars, mangle_vars, abi_vars, ptr_vars, subst_vars, gen_vars>>

CallMod ==
    /\ yul_op = "none"
    /\ yul_op' = "Mod"
    /\ yul_out' = Mod(yul_in[1], yul_in[2])
    /\ UNCHANGED <<yul_in, storage, hist, key_vars,
                   layout_vars, mangle_vars, abi_vars, ptr_vars, subst_vars, gen_vars>>

\* CastU{n} of the first word; hist keeps the width.
CallCastU(n) ==
    /\ yul_op = "none"
    /\ yul_op' = "CastU"
    /\ hist' = <<n>>
    /\ yul_out' = CastU(n, yul_in[1])
    /\ UNCHANGED <<yul_in, storage, key_vars,
                   layout_vars, mangle_vars, abi_vars, ptr_vars, subst_vars, gen_vars>>

CallCastU256 ==
    /\ yul_op = "none"
    /\ yul_op' = "CastU256"
    /\ yul_out' = CastU256(yul_in[1], yul_in[2])
    /\ UNCHANGED <<yul_in, storage, hist, key_vars,
                   layout_vars, mangle_vars, abi_vars, ptr_vars, subst_vars, gen_vars>>

NextChecked ==
    \/ CallSub
    \/ CallDiv
    \/ CallMod
    \/ \E n \in CastWidths : CallCastU(n)
    \/ CallCastU256

SpecChecked == InitChecked /\ [][NextChecked]_vars

\* ------------------------------------ properties of Sub, Div, Mod, casts

\* q is the quotient and r the remainder of x by y # 0: q * y + r = x as
\* numbers (the product and the sum stay below 2^256) and r < y.
IsQuotRem(x, y, q, r) ==
    LET prod == Product(q, y)
        low == from_limbs([k \in 0..31 |-> prod[k]])
    IN  /\ \A k \in 32..63 : prod[k] = 0
        /\ PlusWord(low, r) = x
        /\ ~word_lt(x, r)
        /\ word_lt(r, y)

\* The abort of AbortBuiltin: word 0 of memory holds 2^256 - 1, the revert
\* data are the bytes 24 .. 31 of memory, and there is no result.
IsBuiltinAbort(res) ==
    /\ DOMAIN res = {"revert", "memory"}
    /\ mload(res.memory, 0) = BitsWord(0..(WordBits - 1))
    /\ res.revert = [k \in 0..7 |-> res.memory[24 + k]]
    /\ res.revert = [k \in 0..7 |-> 255]

\* A call that returns the value v.
Returns(res, v) == DOMAIN res = {"r"} /\ res.r = v

\* C21: Sub(x, y) aborts iff x < y; Div(x, y) and Mod(x, y) abort iff y = 0;
\* CastU{n}(x) aborts iff x > MAX_U{n}; CastU256(hi, lo) aborts iff hi or lo
\* exceeds MAX_U128 and returns hi * 2^128 + lo otherwise.  A call that does
\* not abort returns the difference, the quotient, the remainder or the
\* value cast, and an abort is the one of AbortBuiltin, with no result.
C21_CheckedOps ==
    LET x == yul_in[1]
        y == yul_in[2]
        zero == NatToWord(0)
    IN  /\ yul_op \in {"Sub", "Div", "Mod", "CastU", "CastU256"} =>
              /\ Aborted(yul_out) => IsBuiltinAbort(yul_out)
              /\ ~Aborted(yul_out) => DOMAIN yul_out = {"r"}
        /\ yul_op = "Sub" =>
              /\ Aborted(yul_out) <=> word_lt(x, y)
              /\ ~word_lt(x, y) =>
                    /\ PlusWord(yul_out.r, y) = x
                    /\ ~word_lt(x, yul_out.r)
        /\ yul_op = "Div" =>
              /\ Aborted(yul_out) <=> y = zero
              /\ y # zero =>
                    \E r \in {Mod(x, y).r} : IsQuotRem(x, y, yul_out.r, r)
        /\ yul_op = "Mod" =>
              /\ Aborted(yul_out) <=> y = zero
              /\ y # zero =>
                    \E q \in {Div(x, y).r} : IsQuotRem(x, y, q, yul_out.r)
        /\ yul_op = "CastU" =>
              /\ Aborted(yul_out) <=> word_lt(MAX_U(hist[1]), x)
              /\ ~word_lt(MAX_U(hist[1]), x) => Returns(yul_out, x)
        /\ yul_op = "CastU256" =>
              LET over == word_lt(MAX_U128, x) \/ word_lt(MAX_U128, y)
              IN  /\ Aborted(yul_out) <=> over
                  /\ ~over =>
                        Returns(yul_out,
                                [i \in 0..(WordBits - 1) |->
                                    IF i < 128 THEN y[i] ELSE x[i - 128]])
                  /\ (x = MAX_U128 /\ y = MAX_U128) => Returns(yul_out, MAX_U256)
                  /\ (x = BitsWord({128}) /\ y = zero) => Aborted(yul_out)

\* Sub(0, 1) aborts, Div(2^256 - 1, 3) returns, CastU256 of two values
\* 2^128 - 1 returns 2^256 - 1.
C21_Witness ==
    \/ /\ yul_op = "Sub"
       /\ yul_in = <<NatToWord(0), NatToWord(1)>>
       /\ IsBuiltinAbort(yul_out)
    \/ /\ yul_op = "Div"
       /\ yul_in = <<MAX_U256, NatToWord(3)>>
       /\ ~Aborted(yul_out)
       /\ yul_out.r[0] = 1 /\ yul_out.r[1] = 0
    \/ /\ yul_op = "CastU256"
       /\ yul_in = <<MAX_U128, MAX_U128>>
       /\ yul_out = [r |-> MAX_U256]

\* ------------------------------------------------ the Yul function table

\* The variants of YulFunction, in the order of their declaration.
YulFunctions ==
    <<"Abort", "AbortBuiltin", "NotImplemented", "Malloc", "Free",
     "MakePtr", "IsStoragePtr", "OffsetPtr", "MaskForSize",
     "ExtractBytes", "InjectBytes", "ToWordOffs", "OverflowBytes",
     "MemoryLoadBytes", "MemoryStoreBytes", "StorageLoadBytes",
     "StorageStoreBytes", "StorageKey", "MakeTypeStorageBase",
     "NewLinkedStorageBase", "IndexPtr", "LoadU8", "MemoryLoadU8",
     "StorageLoadU8", "StoreU8", "MemoryStoreU8", "StorageStoreU8",
     "LoadU64", "MemoryLoadU64", "StorageLoadU64", "StoreU64",
     "MemoryStoreU64", "StorageStoreU64", "LoadU128", "MemoryLoadU128",
     "StorageLoadU128", "StoreU128", "MemoryStoreU128",
     "StorageStoreU128", "LoadU256", "MemoryLoadU256", "StorageLoadU256",
     "StoreU256", "MemoryStoreU256", "StorageStoreU256",
     "AlignedStorageLoad", "AlignedStorageStore", "CopyMemory", "AddU64",
     "MulU64", "AddU8", "MulU8", "AddU128", "MulU128", "AddU256",
     "MulU256", "Sub", "Div", "Mod", "Shr", "ShlU8", "ShlU64", "ShlU128",
     "ShlU256", "Gt", "Lt", "GtEq", "LtEq", "Eq", "Neq", "LogicalAnd",
     "LogicalOr", "LogicalNot", "BitAnd", "BitOr", "BitXor", "BitNot",
     "CastU8", "CastU64", "CastU128", "CastU256">>

YulFunction == {YulFunctions[i] : i \in DOMAIN YulFunctions}

\* A table that declares no dependency.
yule_deps_none(f) == {}

\* yule_deps: the functions named after `dep` in the table.
yule_deps(f) ==
    CASE f = "AbortBuiltin" ->
            {"Abort"}
      [] f = "NotImplemented" ->
            {"AbortBuiltin"}
      [] f = "ExtractBytes" ->
            {"MaskForSize"}
      [] f = "InjectBytes" ->
            {"MaskForSize"}
      [] f = "MemoryLoadBytes" ->
            {"MaskForSize"}
      [] f = "MemoryStoreBytes" ->
            {"MaskForSize"}
      [] f = "StorageLoadBytes" ->
            {"ToWordOffs", "StorageKey", "ExtractBytes", "OverflowBytes"}
      [] f = "StorageStoreBytes" ->
            {"ToWordOffs", "StorageKey", "InjectBytes", "OverflowBytes"}
      [] f = "NewLinkedStorageBase" ->
            {"MakeTypeStorageBase"}
      [] f = "IndexPtr" ->
            {"MakePtr", "IsStoragePtr", "OffsetPtr"}
      [] f = "LoadU8" ->
            {"OffsetPtr", "IsStoragePtr", "MemoryLoadU8", "StorageLoadU8"}
      [] f = "MemoryLoadU8" ->
            {"MemoryLoadBytes"}
      [] f = "StorageLoadU8" ->
            {"StorageLoadBytes"}
      [] f = "StoreU8" ->
            {"OffsetPtr", "IsStoragePtr", "MemoryStoreU8", "StorageStoreU8"}
      [] f = "StorageStoreU8" ->
            {"StorageStoreBytes"}
      [] f = "LoadU64" ->
            {"OffsetPtr", "IsStoragePtr", "MemoryLoadU64", "StorageLoadU64"}
      [] f = "MemoryLoadU64" ->
            {"MemoryLoadBytes"}
      [] f = "StorageLoadU64" ->
            {"StorageLoadBytes"}
      [] f = "StoreU64" ->
            {"OffsetPtr", "IsStoragePtr", "MemoryStoreU64", "StorageStoreU64"}
      [] f = "MemoryStoreU64" ->
            {"MemoryStoreBytes"}
      [] f = "StorageStoreU64" ->
            {"StorageStoreBytes"}
      [] f = "LoadU128" ->
            {"OffsetPtr", "IsStoragePtr", "MemoryLoadU128", "StorageLoadU128"}
      [] f = "MemoryLoadU128" ->
            {"MemoryLoadBytes"}
      [] f = "StorageLoadU128" ->
            {"StorageLoadBytes"}
      [] f = "StoreU128" ->
            {"OffsetPtr", "IsStoragePtr", "MemoryStoreU128", "StorageStoreU128"}
      [] f = "MemoryStoreU128" ->
            {"MemoryStoreBytes"}
      [] f = "StorageStoreU128" ->
            {"StorageStoreBytes"}
      [] f = "LoadU256" ->
            {"OffsetPtr", "IsStoragePtr", "MemoryLoadU256", "StorageLoadU256"}
      [] f = "MemoryLoadU256" ->
            {"MemoryLoadBytes"}
      [] f = "StorageLoadU256" ->
            {"StorageLoadBytes"}
      [] f = "StoreU256" ->
            {"OffsetPtr", "IsStoragePtr", "MemoryStoreU256", "StorageStoreU256"}
      [] f = "MemoryStoreU256" ->
            {"MemoryStoreBytes"}
      [] f = "StorageStoreU256" ->
            {"StorageStoreBytes"}
      [] f = "AlignedStorageLoad" ->
            {"StorageKey"}
      [] f = "AlignedStorageStore" ->
            {"StorageKey"}
      [] f = "AddU64" ->
            {"AbortBuiltin"}
      [] f = "MulU64" ->
            {"AbortBuiltin"}
      [] f = "AddU8" ->
            {"AbortBuiltin"}
      [] f = "MulU8" ->
            {"AbortBuiltin"}
      [] f = "AddU128" ->
            {"AbortBuiltin"}
      [] f = "MulU128" ->
            {"AbortBuiltin"}
      [] f = "AddU256" ->
            {"AbortBuiltin"}
      [] f = "MulU256" ->
            {"AbortBuiltin"}
      [] f = "Sub" ->
            {"AbortBuiltin"}
      [] f = "Div" ->
            {"AbortBuiltin"}
      [] f = "Mod" ->
            {"AbortBuiltin"}
      [] f = "CastU8" ->
            {"AbortBuiltin"}
      [] f = "CastU64" ->
            {"AbortBuiltin"}
      [] f = "CastU128" ->
            {"AbortBuiltin"}
      [] f = "CastU256" ->
            {"AbortBuiltin"}
      [] OTHER -> {}

\* The functions that the text of yule_def(f) calls, as $Name.
yule_def_calls(f) ==
    CASE f = "AbortBuiltin" ->
            {"Abort"}
      [] f = "NotImplemented" ->
            {"AbortBuiltin"}
      [] f = "ExtractBytes" ->
            {"MaskForSize"}
      [] f = "InjectBytes" ->
            {"MaskForSize"}
      [] f = "MemoryStoreBytes" ->
            {"MaskForSize"}
      [] f = "StorageLoadBytes" ->
            {"ExtractBytes", "OverflowBytes", "StorageKey", "ToWordOffs"}
      [] f = "StorageStoreBytes" ->
            {"InjectBytes", "MaskForSize", "OverflowBytes", "StorageKey", "ToWordOffs"}
      [] f = "NewLinkedStorageBase" ->
            {"MakeTypeStorageBase"}
      [] f = "IndexPtr" ->
            {"IsStoragePtr", "MakePtr", "OffsetPtr"}
      [] f = "LoadU8" ->
            {"IsStoragePtr", "MemoryLoadU8", "OffsetPtr", "StorageLoadU8"}
      [] f = "MemoryLoadU8" ->
            {"MemoryLoadBytes"}
      [] f = "StorageLoadU8" ->
            {"StorageLoadBytes"}
      [] f = "StoreU8" ->
            {"IsStoragePtr", "MemoryStoreU8", "OffsetPtr", "StorageStoreU8"}
      [] f = "StorageStoreU8" ->
            {"StorageStoreBytes"}
      [] f = "LoadU64" ->
            {"IsStoragePtr", "MemoryLoadU64", "OffsetPtr", "StorageLoadU64"}
      [] f = "MemoryLoadU64" ->
            {"MemoryLoadBytes"}
      [] f = "StorageLoadU64" ->
            {"StorageLoadBytes"}
      [] f = "StoreU64" ->
            {"IsStoragePtr", "MemoryStoreU64", "OffsetPtr", "StorageStoreU64"}
      [] f = "MemoryStoreU64" ->
            {"MemoryStoreBytes"}
      [] f = "StorageStoreU64" ->
            {"StorageStoreBytes"}
      [] f = "LoadU128" ->
            {"IsStoragePtr", "MemoryLoadU128", "OffsetPtr", "StorageLoadU128"}
      [] f = "MemoryLoadU128" ->
            {"MemoryLoadBytes"}
      [] f = "StorageLoadU128" ->
            {"StorageLoadBytes"}
      [] f = "StoreU128" ->
            {"IsStoragePtr", "MemoryStoreU128", "OffsetPtr", "StorageStoreU128"}
      [] f = "MemoryStoreU128" ->
            {"MemoryStoreBytes"}
      [] f = "StorageStoreU128" ->
            {"StorageStoreBytes"}
      [] f = "LoadU256" ->
            {"IsStoragePtr", "MemoryLoadU256", "OffsetPtr", "StorageLoadU256"}
      [] f = "MemoryLoadU256" ->
            {"MemoryLoadBytes"}
      [] f = "StorageLoadU256" ->
            {"StorageLoadBytes"}
      [] f = "StoreU256" ->
            {"IsStoragePtr", "MemoryStoreU256", "OffsetPtr", "StorageStoreU256"}
      [] f = "MemoryStoreU256" ->
            {"MemoryStoreBytes"}
      [] f = "StorageStoreU256" ->
            {"StorageStoreBytes"}
      [] f = "AlignedStorageLoad" ->
            {"StorageKey"}
      [] f = "AlignedStorageStore" ->
            {"StorageKey"}
      [] f = "AddU64" ->
            {"AbortBuiltin"}
      [] f = "MulU64" ->
            {"AbortBuiltin"}
      [] f = "AddU8" ->
            {"AbortBuiltin"}
      [] f = "MulU8" ->
            {"AbortBuiltin"}
      [] f = "AddU128" ->
            {"AbortBuiltin"}
      [] f = "MulU128" ->
            {"AbortBuiltin"}
      [] f = "AddU256" ->
            {"AbortBuiltin"}
      [] f = "MulU256" ->
            {"AbortBuiltin"}
      [] f = "Sub" ->
            {"AbortBuiltin"}
      [] f = "Div" ->
            {"AbortBuiltin"}
      [] f = "Mod" ->
            {"AbortBuiltin"}
      [] f = "CastU8" ->
            {"AbortBuiltin"}
      [] f = "CastU64" ->
            {"AbortBuiltin"}
      [] f = "CastU128" ->
            {"AbortBuiltin"}
      [] f = "CastU256" ->
            {"AbortBuiltin"}
      [] OTHER -> {}
\* The position of a function in the declaration, the order of YulFunction.
yul_index(f) == CHOOSE i \in DOMAIN YulFunctions : YulFunctions[i] = f

\* ------------------------------------------------ emission of Yul functions
\* The generator records the functions its code calls; at the end of a code
\* block it emits them with everything they depend on, each text once,
\* taking the functions in the order of YulFunction.

MaxUsed == 2

Elems(seq) == {seq[i] : i \in DOMAIN seq}

InitEmit ==
    /\ used = {}
    /\ needed = {}
    /\ emitted = <<>>
    /\ IdleLayout /\ IdleMangle /\ IdleAbi /\ IdlePtr /\ IdleKey /\ IdleYul
    /\ IdleSubst /\ IdleTargets /\ IdleSel

\* The generated code calls f.
NeedYulFunction(f) ==
    /\ emitted = <<>>
    /\ Cardinality(used) < MaxUsed
    /\ f \notin used
    /\ used' = used \cup {f}
    /\ needed' = needed \cup {f}
    /\ UNCHANGED <<emitted, layout_vars, mangle_vars, abi_vars, ptr_vars, key_vars,
                   yul_vars, subst_vars, target_vars, sel_vars>>

\* The text of the first function still needed is written, and the
\* functions it depends on that are not yet written become needed.
EmitYulFunction ==
    /\ needed # {}
    /\ LET f == CHOOSE g \in needed :
                    \A h \in needed : yul_index(g) <= yul_index(h)
       IN  /\ emitted' = Append(emitted, f)
           /\ needed' = (needed \ {f}) \cup (yule_deps(f) \ Elems(emitted'))
    /\ UNCHANGED <<used, layout_vars, mangle_vars, abi_vars, ptr_vars, key_vars,
                   yul_vars, subst_vars, target_vars, sel_vars>>

NextEmit == (\E f \in YulFunction : NeedYulFunction(f)) \/ EmitYulFunction

SpecEmit == InitEmit /\ [][NextEmit]_vars

\* ------------------------------------------------ properties of the emission

\* The functions reached from those of S along yule_deps, S included.
RECURSIVE deps_closure(_)
deps_closure(S) ==
    LET T == S \cup UNION {yule_deps(f) : f \in S}
    IN  IF T = S THEN S ELSE deps_closure(T)

\* The transitive closure of yule_deps at f.
trans_deps(f) == deps_closure(yule_deps(f))

\* C22: no function depends on itself through yule_deps, and every function
\* that the text of a function calls is among its transitive dependencies;
\* so the emission writes no text twice, writes only what is used or
\* depended on, never runs longer than there are functions, and when it
\* ends every function called by a written text, and every used function,
\* is written.
C22_DependencyClosure ==
    /\ \A f \in used \cup Elems(emitted) :
          /\ f \notin trans_deps(f)
          /\ yule_def_calls(f) \subseteq trans_deps(f)
    /\ \A i, j \in DOMAIN emitted : emitted[i] = emitted[j] => i = j
    /\ needed \cap Elems(emitted) = {}
    /\ Elems(emitted) \cup needed \subseteq deps_closure(used)
    /\ Len(emitted) <= Len(YulFunctions)
    /\ needed = {} =>
          /\ Elems(emitted) = deps_closure(used)
          /\ \A f \in Elems(emitted) : yule_def_calls(f) \subseteq Elems(emitted)

\* StorageStoreBytes was used: its text calls MaskForSize, which is written
\* as a dependency of InjectBytes.
C22_Witness ==
    /\ "StorageStoreBytes" \in used
    /\ needed = {}
    /\ "MaskForSize" \in Elems(emitted)
    /\ "MaskForSize" \notin yule_deps("StorageStoreBytes")
    /\ "MaskForSize" \in yule_def_calls("StorageStoreBytes")

\* ------------------------------------------------ comparisons and negation

Gt(x, y) == [r |-> evm_gt(x, y)]

Lt(x, y) == [r |-> evm_lt(x, y)]

GtEq(x, y) == [r |-> evm_or(evm_gt(x, y), evm_eq(x, y))]

LtEq(x, y) == [r |-> evm_or(evm_lt(x, y), evm_eq(x, y))]

Eq(x, y) == [r |-> evm_eq(x, y)]

Neq(x, y) == [r |-> evm_not(evm_eq(x, y))]

LogicalNot(x) == [r |-> evm_not(x)]

Comparisons == {"Gt", "Lt", "GtEq", "LtEq", "Eq", "Neq"}

Compare(op, x, y) ==
    CASE op = "Gt" -> Gt(x, y) [] op = "Lt" -> Lt(x, y)
      [] op = "GtEq" -> GtEq(x, y) [] op = "LtEq" -> LtEq(x, y)
      [] op = "Eq" -> Eq(x, y) [] op = "Neq" -> Neq(x, y)

InitCompare ==
    /\ yul_op = "none"
    /\ yul_in \in CheckedProbes \X CheckedProbes
    /\ yul_out = <<>>
    /\ storage = <<>>
    /\ hist = <<>>
    /\ IdleLayout /\ IdleMangle /\ IdleAbi /\ IdlePtr /\ IdleKey /\ IdleSubst /\ IdleGen

CallCompare(op) ==
    /\ yul_op = "none"
    /\ yul_op' = op
    /\ yul_out' = Compare(op, yul_in[1], yul_in[2])
    /\ UNCHANGED <<yul_in, storage, hist, key_vars,
                   layout_vars, mangle_vars, abi_vars, ptr_vars, subst_vars, gen_vars>>

\* LogicalNot of the first word, when that is a boolean.
CallLogicalNot ==
    /\ yul_op = "none"
    /\ yul_in[1] \in {BoolWord(FALSE), BoolWord(TRUE)}
    /\ yul_op' = "LogicalNot"
    /\ yul_out' = LogicalNot(yul_in[1])
    /\ UNCHANGED <<yul_in, storage, hist, key_vars,
                   layout_vars, mangle_vars, abi_vars, ptr_vars, subst_vars, gen_vars>>

NextCompare == (\E op \in Comparisons : CallCompare(op)) \/ CallLogicalNot

SpecCompare == InitCompare /\ [][NextCompare]_vars

\* ---------------------------------------------- properties of the comparisons

\* The relation a comparison stands for.
Holds(op, x, y) ==
    CASE op = "Gt" -> word_lt(y, x)
      [] op = "Lt" -> word_lt(x, y)
      [] op = "GtEq" -> ~word_lt(x, y)
      [] op = "LtEq" -> ~word_lt(y, x)
      [] op = "Eq" -> x = y
      [] op = "Neq" -> x # y

\* C23: Gt, Lt, GtEq, LtEq, Eq and Neq return 1 when their relation holds on
\* (x, y) and 0 otherwise, LogicalNot(b) returns 1 for b = 0 and 0 for
\* b = 1; so the result is non-zero, true as a Yul condition, exactly when
\* the relation, or the negation, holds.
C23_Comparisons ==
    /\ yul_op \in Comparisons =>
          LET rel == Holds(yul_op, yul_in[1], yul_in[2])
          IN  /\ yul_out.r = BoolWord(rel)
              /\ yul_true(yul_out.r) <=> rel
    /\ yul_op = "LogicalNot" =>
          LET b == yul_true(yul_in[1])
          IN  /\ yul_out.r = BoolWord(~b)
              /\ yul_true(yul_out.r) <=> ~b

\* The same for the comparisons other than Neq.
ComparisonsButNeq ==
    yul_op \in Comparisons \ {"Neq"} =>
        LET rel == Holds(yul_op, yul_in[1], yul_in[2])
        IN  /\ yul_out.r = BoolWord(rel)
            /\ yul_true(yul_out.r) <=> rel

\* Neq and LogicalNot return a non-zero word whatever their arguments.
NegationsAlwaysTrue ==
    yul_op \in {"Neq", "LogicalNot"} => yul_true(yul_out.r)

\* ------------------------------------------------- load / store selectors

\* Type::skip_reference: the type under a reference, the type itself otherwise.
skip_reference(ty) == IF ty[1] = "Reference" THEN ty[3] ELSE ty

\* What a function that returns a name or a text gives when it panics.
PanicStr == "panic!"

\* The value of max_value, a placeholder, or a panic.
max_value(e, ty) ==
    LET size == type_size(skip_reference(ty))
    IN  CASE size = Panic -> PanicStr
          [] size = 1 -> "${MAX_U8}"
          [] size = 8 -> "${MAX_U64}"
          [] size = 16 -> "${MAX_U128}"
          [] size = 20 -> "${ADDRESS_U160}"
          [] size = 32 -> "${MAX_U256}"
          [] OTHER -> IF type_allocates_memory(e, ty) THEN "${MAX_U256}" ELSE PanicStr

load_builtin_fun(ty) ==
    LET size == type_size(skip_reference(ty))
    IN  CASE size = 1 -> "LoadU8"
          [] size = 8 -> "LoadU64"
          [] size = 16 -> "LoadU128"
          [] size = 32 -> "LoadU256"
          [] OTHER -> PanicStr

store_builtin_fun(ty) ==
    LET size == type_size(skip_reference(ty))
    IN  CASE size = 1 -> "StoreU8"
          [] size = 8 -> "StoreU64"
          [] size = 16 -> "StoreU128"
          [] size = 32 -> "StoreU256"
          [] OTHER -> PanicStr

memory_load_builtin_fun(ty) ==
    LET size == type_size(skip_reference(ty))
    IN  CASE size = 1 -> "MemoryLoadU8"
          [] size = 8 -> "MemoryLoadU64"
          [] size = 16 -> "MemoryLoadU128"
          [] size = 32 -> "MemoryLoadU256"
          [] OTHER -> PanicStr

memory_store_builtin_fun(ty) ==
    LET size == type_size(skip_reference(ty))
    IN  CASE size = 1 -> "MemoryStoreU8"
          [] size = 8 -> "MemoryStoreU64"
          [] size = 16 -> "MemoryStoreU128"
          [] size = 32 -> "MemoryStoreU256"
          [] OTHER -> PanicStr

storage_load_builtin_fun(ty) ==
    LET size == type_size(skip_reference(ty))
    IN  CASE size = 1 -> "StorageLoadU8"
          [] size = 8 -> "StorageLoadU64"
          [] size = 16 -> "StorageLoadU128"
          [] size = 32 -> "StorageLoadU256"
          [] OTHER -> PanicStr

storage_store_builtin_fun(ty) ==
    LET size == type_size(skip_reference(ty))
    IN  CASE size = 1 -> "StorageStoreU8"
          [] size = 8 -> "StorageStoreU64"
          [] size = 16 -> "StorageStoreU128"
          [] size = 32 -> "StorageStoreU256"
          [] OTHER -> PanicStr

Selectors ==
    {"load_builtin_fun", "store_builtin_fun", "memory_load_builtin_fun",
     "memory_store_builtin_fun", "storage_load_builtin_fun",
     "storage_store_builtin_fun"}

select(sel, ty) ==
    CASE sel = "load_builtin_fun" -> load_builtin_fun(ty)
      [] sel = "store_builtin_fun" -> store_builtin_fun(ty)
      [] sel = "memory_load_builtin_fun" -> memory_load_builtin_fun(ty)
      [] sel = "memory_store_builtin_fun" -> memory_store_builtin_fun(ty)
      [] sel = "storage_load_builtin_fun" -> storage_load_builtin_fun(ty)
      [] sel = "storage_store_builtin_fun" -> storage_store_builtin_fun(ty)

\* The bytes a Load / Store function of the Yul library reads or writes:
\* the size it hands to the *Bytes function it is made of (mstore8, mload,
\* mstore, sload and sstore for the others).
access_width(f) ==
    CASE f \in {"LoadU8", "StoreU8", "MemoryLoadU8", "MemoryStoreU8",
                "StorageLoadU8", "StorageStoreU8"} -> 1
      [] f \in {"LoadU64", "StoreU64", "MemoryLoadU64", "MemoryStoreU64",
                "StorageLoadU64", "StorageStoreU64"} -> 8
      [] f \in {"LoadU128", "StoreU128", "MemoryLoadU128", "MemoryStoreU128",
                "StorageLoadU128", "StorageStoreU128"} -> 16
      [] f \in {"LoadU256", "StoreU256", "MemoryLoadU256", "MemoryStoreU256",
                "StorageLoadU256", "StorageStoreU256"} -> 32

\* ----------------------------------------------- inputs of the selectors

\* Vectors of ty nested up to depth n.
RECURSIVE Vectors(_, _)
Vectors(ty, n) == IF n = 0 THEN {} ELSE {Vector(ty)} \cup Vectors(Vector(ty), n - 1)

\* The types valid as the type of a field, without references.
ValidFieldTypes ==
    {Bool, U8, U64, U128, Address, Signer, StructP, StructE, StructG(U8), U256}
        \cup Vectors(U8, MaxVecDepth) \cup Vectors(Address, MaxVecDepth)
        \cup Vectors(StructP, MaxVecDepth)

\* Types that are no field types.
OtherTypes ==
    {Num, Range, EventStore, Tuple(<<U8, U64>>), TypeParameter(0),
     Reference(FALSE, Num), Reference(TRUE, Tuple(<<>>)),
     Reference(FALSE, Reference(FALSE, U8))}

SelectorTypes ==
    ValidFieldTypes
        \cup {Reference(m, ty) : m \in BOOLEAN, ty \in ValidFieldTypes}
        \cup OtherTypes

InitSelect ==
    /\ sel_in \in SelectorTypes
    /\ sel_out = <<>>
    /\ IdleLayout /\ IdleMangle /\ IdleAbi /\ IdlePtr /\ IdleKey /\ IdleYul
    /\ IdleSubst /\ IdleEmit /\ IdleTargets

CallSelector(sel) ==
    /\ sel_out = <<>>
    /\ sel_out' = [fun |-> sel, ret |-> select(sel, sel_in)]
    /\ UNCHANGED <<sel_in, layout_vars, mangle_vars, abi_vars, ptr_vars, key_vars,
                   yul_vars, subst_vars, emit_vars, target_vars>>

CallMaxValue ==
    /\ sel_out = <<>>
    /\ sel_out' = [fun |-> "max_value", ret |-> max_value(env, sel_in)]
    /\ UNCHANGED <<sel_in, layout_vars, mangle_vars, abi_vars, ptr_vars, key_vars,
                   yul_vars, subst_vars, emit_vars, target_vars>>

NextSelect == (\E sel \in Selectors : CallSelector(sel)) \/ CallMaxValue

SpecSelect == InitSelect /\ [][NextSelect]_vars

\* --------------------------------------------- properties of the selectors

\* A field type, or a reference to one.
IsFieldType(ty) == skip_reference(ty) \in ValidFieldTypes

\* C24: for every field type and every reference to one, each of the six
\* selectors returns, without a panic, a function that accesses at least
\* type_size bytes of the type under the reference, and max_value returns a
\* placeholder for exactly the types the selectors return for.
C24_SelectorsTotal ==
    /\ (sel_out # <<>> /\ IsFieldType(sel_in)) => sel_out.ret # PanicStr
    /\ (sel_out # <<>> /\ sel_out.fun \in Selectors /\ IsFieldType(sel_in)) =>
          /\ sel_out.ret \in YulFunction
          /\ access_width(sel_out.ret) >= type_size(skip_reference(sel_in))
    /\ (sel_out # <<>> /\ sel_out.fun = "max_value") =>
          \A sel \in Selectors :
              (sel_out.ret # PanicStr) <=> (select(sel, sel_in) # PanicStr)

\* The same without Address and Signer.
SelectorsButAddress ==
    skip_reference(sel_in) \notin {Address, Signer} => C24_SelectorsTotal

\* ------------------------------------------- mangling of two value types

\* The primitives a value of the backend may have.
ValuePrimitives == {Bool, U8, U64, U128, Address, Signer}

RECURSIVE ValueVectors(_)
ValueVectors(depth) ==
    IF depth = 0 THEN ValuePrimitives \cup {StructP}
    ELSE ValueVectors(depth - 1) \cup {Vector(t) : t \in ValueVectors(depth - 1)}

\* Primitives, vectors, structs of different address, module or name, and
\* one struct with different type arguments.
ValueTypes ==
    ValueVectors(MaxVecDepth)
        \cup {StructE, U256, StructAbC, StructABc, StructA2Bc,
              StructG(U8), StructG(U64), StructG(Vector(U8)), StructG(StructP),
              StructG(StructG(U8))}

InitMangleTwo ==
    /\ mg_in \in [1..2 -> ValueTypes]
    /\ mg_out = [done |-> FALSE, types |-> <<>>, each |-> <<>>]
    /\ IdleLayout /\ IdleAbi /\ IdlePtr /\ IdleKey /\ IdleYul /\ IdleSubst /\ IdleGen

SpecMangleTwo == InitMangleTwo /\ [][NextMangle]_vars

\* C25: two different value types never have the same mangled string.
C25_MangleInjective ==
    (mg_out.done /\ Len(mg_in) = 2 /\ mg_in[1] # mg_in[2]) =>
        mg_out.each[1] # mg_out.each[2]

HasUnderscore(str) == \E i \in DOMAIN str : str[i] = "_"

\* A module name or a struct name in ty holds '_'.
RECURSIVE NamesUnderscore(_)
NamesUnderscore(ty) ==
    CASE ty[1] = "Vector" -> NamesUnderscore(ty[2])
      [] ty[1] = "Struct" ->
            \/ HasUnderscore(Modules[ty[2]].name)
            \/ HasUnderscore(get_struct(env, <<ty[2], ty[3]>>).name)
            \/ \E i \in DOMAIN ty[4] : NamesUnderscore(ty[4][i])
      [] OTHER -> FALSE

\* The same for types whose module and struct names hold no '_'.
MangleInjectivePlainNames ==
    (~NamesUnderscore(mg_in[1]) /\ ~NamesUnderscore(mg_in[2])) => C25_MangleInjective

\* ------------------------------------------------------- function targets
\* The program of a GlobalEnv: module M1 with the functions f and g, module
\* M2 with the function h.  env holds [target: the target modules,
\* attrs: the attributes of each function, called: the functions each
\* function calls].

FunList == <<"f", "g", "h">>
Funs == {FunList[i] : i \in DOMAIN FunList}
module_of(fun) == IF fun = "h" THEN "M2" ELSE "M1"

\* The most call edges of a program.
MaxEdges == 3

is_test_fun(e, fun) == "test" \in e.attrs[fun]
is_callable_fun(e, fun) == "callable" \in e.attrs[fun]
is_create_fun(e, fun) == "create" \in e.attrs[fun]
is_receive_fun(e, fun) == "receive" \in e.attrs[fun]
is_fallback_fun(e, fun) == "fallback" \in e.attrs[fun]

is_used_fun(e, test, fun) ==
    IF test THEN is_test_fun(e, fun)
    ELSE \/ is_callable_fun(e, fun)
         \/ is_create_fun(e, fun)
         \/ is_receive_fun(e, fun)
         \/ is_fallback_fun(e, fun)

\* get_called_functions, in the order of the function ids.
get_called_functions(e, fun) ==
    LET pick[i \in 0..Len(FunList)] ==
            IF i = 0 THEN <<>>
            ELSE IF FunList[i] \in e.called[fun]
                 THEN Append(pick[i - 1], FunList[i])
                 ELSE pick[i - 1]
    IN  pick[Len(FunList)]

\* A holder that never reports a target.
has_target_never(tgts, fun) == FALSE

has_target(tgts, fun) == fun \in tgts

add_target(tgts, fun) == tgts \cup {fun}

\* ----------------------------------------------- inputs of create_bytecode

Attributes == {"test", "callable", "create", "receive", "fallback"}

\* The sets of at most n call edges.
RECURSIVE EdgeSets(_)
EdgeSets(n) ==
    IF n = 0 THEN {{}}
    ELSE LET S == EdgeSets(n - 1)
         IN  S \cup {es \cup {ed} : es \in S, ed \in Funs \X Funs}

\* Programs: some functions carry one attribute, the same for all of them.
Programs ==
    {[target |-> tm,
      attrs |-> [fun \in Funs |-> IF fun \in tagged THEN {a} ELSE {}],
      called |-> [fun \in Funs |-> {g \in Funs : <<fun, g>> \in es}]] :
        tm \in {{"M1"}, {"M2"}, {"M1", "M2"}}, tagged \in SUBSET Funs,
        a \in Attributes, es \in EdgeSets(MaxEdges)}

InitTargets ==
    /\ env \in Programs
    /\ for_test \in BOOLEAN
    /\ targets = {}
    /\ add_stack = <<>>
    /\ cb_pos = 0
    /\ struct_layout = <<>>
    /\ st_arg = NoCall
    /\ st_ret = [layout |-> StructLayoutDefault, hit |-> FALSE]
    /\ first_ret = <<>>
    /\ IdleMangle /\ IdleAbi /\ IdlePtr /\ IdleKey /\ IdleYul /\ IdleSubst
    /\ IdleEmit /\ IdleSel

\* A call add_fun(targets, fun) starts: the function gets a target, and its
\* called functions are still to be looked at.
add_fun_frame(e, fun) == [fun |-> fun, rest |-> get_called_functions(e, fun)]

\* create_bytecode: the loop over the modules and their functions comes to
\* the next function, and calls add_fun when that is a used function of a
\* target module.
VisitFunction ==
    /\ add_stack = <<>>
    /\ cb_pos < Len(FunList)
    /\ cb_pos' = cb_pos + 1
    /\ LET fun == FunList[cb_pos + 1]
       IN  IF module_of(fun) \in env.target /\ is_used_fun(env, for_test, fun)
           THEN /\ targets' = add_target(targets, fun)
                /\ add_stack' = <<add_fun_frame(env, fun)>>
           ELSE UNCHANGED <<targets, add_stack>>
    /\ UNCHANGED <<env, for_test, struct_layout, st_arg, st_ret, first_ret,
                   mangle_vars, abi_vars, ptr_vars, key_vars, yul_vars, subst_vars,
                   emit_vars, sel_vars>>

\* add_fun: the innermost call looks at its next called function and calls
\* add_fun for it when it has no target, or returns when none is left.
AddFunStep ==
    /\ add_stack # <<>>
    /\ LET n == Len(add_stack)
           top == add_stack[n]
       IN  IF top.rest = <<>>
           THEN /\ add_stack' = SubSeq(add_stack, 1, n - 1)
                /\ UNCHANGED targets
           ELSE LET called_fun == Head(top.rest)
                    below == [add_stack EXCEPT ![n].rest = Tail(top.rest)]
                IN  IF ~has_target(targets, called_fun)
                    THEN /\ targets' = add_target(targets, called_fun)
                         /\ add_stack' = Append(below, add_fun_frame(env, called_fun))
                    ELSE /\ add_stack' = below
                         /\ UNCHANGED targets
    /\ UNCHANGED <<env, for_test, cb_pos, struct_layout, st_arg, st_ret, first_ret,
                   mangle_vars, abi_vars, ptr_vars, key_vars, yul_vars, subst_vars,
                   emit_vars, sel_vars>>

NextTargets == VisitFunction \/ AddFunStep

SpecTargets == InitTargets /\ [][NextTargets]_vars /\ WF_vars(NextTargets)

\* -------------------------------------------- properties of create_bytecode

\* The entry functions: the test functions in test mode, otherwise the
\* callable, create, receive and fallback functions; of target modules.
EntryFuns ==
    {fun \in Funs :
        /\ module_of(fun) \in env.target
        /\ IF for_test THEN "test" \in env.attrs[fun]
           ELSE env.attrs[fun] \cap {"callable", "create", "receive", "fallback"} # {}}

\* The functions reached from those of S along the calls, S included.
RECURSIVE CallClosure(_)
CallClosure(S) ==
    LET T == S \cup UNION {env.called[fun] : fun \in S}
    IN  IF T = S THEN S ELSE CallClosure(T)

Populated == cb_pos = Len(FunList) /\ add_stack = <<>>

\* C26: the population of the targets ends, also when functions call
\* themselves or each other, and then the holder has exactly the functions
\* reached through calls from the entry functions of the target modules;
\* functions of other modules only as called functions.
C26_TargetsReachable ==
    /\ [](Populated => targets = CallClosure(EntryFuns))
    /\ [](targets \subseteq CallClosure(EntryFuns))
    /\ [](\A i, j \in DOMAIN add_stack :
              add_stack[i].fun = add_stack[j].fun => i = j)
    /\ <>[]Populated

\* f calls itself and g, g calls f; the population has ended with both.
C26_Witness ==
    /\ Populated
    /\ {"f", "g"} \subseteq env.called["f"]
    /\ "f" \in env.called["g"]
    /\ targets = {"f", "g"}

====
